---- MODULE Spec2Model ----
(***************************************************************************)
(* The migration engine of wilburhimself/theory (package migration): the   *)
(* Migrator with its in-memory catalog, the migrations ledger table and    *)
(* the schema of the store, with Add, Initialize, Up/UpWithBatch,          *)
(* Down/DownWithBatch and Status.                                          *)
(*                                                                         *)
(* A call of the Migrator is one action.  The store calls a call makes are *)
(* numbered 1, 2, ... in the order the code makes them; the input failAt   *)
(* names the store call the store rejects (0: none).  Statements are also  *)
(* rejected when the schema cannot take them (CREATE of an existing        *)
(* object, DROP of a missing one, a second ledger row with the same id).   *)
(***************************************************************************)
EXTENDS Integers, Sequences, FiniteSets, TLC

VARIABLES
    migrations,   \* Migrator.migrations: the catalog, a sequence of migrations by name
    ledger,       \* rows of the migrations table (committed)
    schema,       \* schema objects in effect (committed): <<table, part>>
    tableExists,  \* whether the migrations table has been created
    clock,        \* time.Now().Unix()
    last,         \* what the most recent Migrator call did
    inflight,     \* the Up calls of concurrent callers, each where it stands
    txn,          \* the Transaction objects, their sql.Tx and the rows of the store
    built         \* the *Migration objects AutoMigrate has built, by pointer

vars ==
    <<migrations, ledger, schema, tableExists, clock, last, inflight, txn,
      built>>

(***************************************************************************)
(* Bounds of the model.                                                    *)
(***************************************************************************)
MaxCatalog == 3
MaxClock == 1
TicksPerSecond == 2
MaxBatch == 2
MaxCallerCatalog == 1

(***************************************************************************)
(* Operations (migration.go).  An operation is a record; Table/Part name   *)
(* the schema object it is about, Types the column types it declares.      *)
(***************************************************************************)
CreateTable(name, types) ==
    [kind |-> "CreateTable", table |-> name, part |-> "", types |-> types]

DropTable(name) ==
    [kind |-> "DropTable", table |-> name, part |-> "", types |-> <<>>]

AddColumn(table, column, type) ==
    [kind |-> "AddColumn", table |-> table, part |-> column, types |-> <<type>>]

DropColumn(table, column) ==
    [kind |-> "DropColumn", table |-> table, part |-> column, types |-> <<>>]

\* ModifyColumn{Table, OldColumn, NewColumn}: types holds NewColumn.Type
ModifyColumn(table, oldColumn, newColumn, type) ==
    [kind |-> "ModifyColumn", table |-> table, part |-> oldColumn,
     to |-> newColumn, types |-> <<type>>]

CreateIndex(table, name) ==
    [kind |-> "CreateIndex", table |-> table, part |-> name, types |-> <<>>]

DropIndex(table, name) ==
    [kind |-> "DropIndex", table |-> table, part |-> name, types |-> <<>>]

(***************************************************************************)
(* Models (package model) and the migration AutoMigrate builds from one.   *)
(* A Go type is named as Go prints it; Kind and Elem are reflect's.        *)
(***************************************************************************)
GoTypes ==
    {"int", "int64", "uint", "uint8", "float32", "float64", "string", "bool",
     "[]uint8", "[]string", "time.Time", "struct", "*string", "map"}

\* reflect.Type.Kind()
Kind(t) ==
    CASE t = "int" -> "Int"
      [] t = "int64" -> "Int64"
      [] t = "uint" -> "Uint"
      [] t = "uint8" -> "Uint8"
      [] t = "float32" -> "Float32"
      [] t = "float64" -> "Float64"
      [] t = "string" -> "String"
      [] t = "bool" -> "Bool"
      [] t \in {"[]uint8", "[]string"} -> "Slice"
      [] t \in {"time.Time", "struct"} -> "Struct"
      [] t = "*string" -> "Ptr"
      [] OTHER -> "Map"

\* reflect.Type.Elem() of a slice or pointer type
Elem(t) ==
    CASE t = "[]uint8" -> "uint8"
      [] OTHER -> "string"

SqlType_named(t) ==
    CASE Kind(t) = "Bool" -> "BOOLEAN"
      [] t = "time.Time" -> "DATETIME"
      [] Kind(t) \in {"Float32", "Float64"} -> "REAL"
      [] Kind(t) = "String" -> "TEXT"
      [] OTHER -> "INTEGER"

\* SqlType: the SQL type name of a Go type
SqlType(t) ==
    CASE Kind(t) \in {"Int", "Int8", "Int16", "Int32", "Int64",
                      "Uint", "Uint8", "Uint16", "Uint32", "Uint64"} -> "INTEGER"
      [] Kind(t) \in {"Float32", "Float64"} -> "REAL"
      [] Kind(t) = "String" -> "TEXT"
      [] Kind(t) = "Bool" -> "INTEGER"
      [] Kind(t) = "Slice" /\ Kind(Elem(t)) = "Uint8" -> "BLOB"
      [] Kind(t) = "Struct" /\ t = "time.Time" -> "INTEGER"
      [] OTHER -> "TEXT"

Field(dbName, type) == [DBName |-> dbName, Type |-> type]

\* the values a caller may hand to AutoMigrate: pointers to structs, and a
\* value that is no struct; TableName is what getTableName gives for the type
Models ==
    {[Name |-> "User", Kind |-> "Struct", TableName |-> "user",
      Fields |-> <<Field("id", "int"), Field("name", "string"),
                   Field("active", "bool"), Field("created_at", "time.Time")>>],
     [Name |-> "Event", Kind |-> "Struct", TableName |-> "event",
      Fields |-> <<Field("id", "int64"), Field("n", "uint"),
                   Field("level", "uint8"),
                   Field("payload", "[]uint8"), Field("tags", "[]string"),
                   Field("score", "float64"), Field("ratio", "float32"),
                   Field("meta", "struct"), Field("ref", "*string"),
                   Field("extra", "map")>>],
     [Name |-> "int", Kind |-> "Int", TableName |-> "", Fields |-> <<>>]}

\* model.ExtractMetadata(m)
ExtractMetadata(m) ==
    IF m.Kind # "Struct"
    THEN [err |-> "model must be a struct", TableName |-> "", Fields |-> <<>>]
    ELSE [err |-> "nil", TableName |-> m.TableName, Fields |-> m.Fields]

\* time.Time.Unix(): whole seconds
Unix(t) == t \div TicksPerSecond

\* NewMigration(name) at time now
NewMigration(name, now) ==
    [ID |-> ToString(Unix(now)) \o "_" \o name, Timestamp |-> now,
     Name |-> name, Up |-> <<>>, Down |-> <<>>]

\* the migration AutoMigrate builds at time now from a model's metadata
AutoMigration(metadata, now) ==
    LET createTable ==
            CreateTable(metadata.TableName,
                        [i \in 1..Len(metadata.Fields) |->
                             SqlType(metadata.Fields[i].Type)])
        mig == NewMigration("create_" \o metadata.TableName, now)
    IN  [mig EXCEPT !.Up = <<createTable>>,
                    !.Down = <<DropTable(metadata.TableName)>>]

\* the times at which AutoMigrate may build a migration
Times == 0..((MaxClock + 1) * TicksPerSecond - 1)

\* the *Migration AutoMigrate hands to the catalog: the model it was built
\* from and the time it was built at tell one such object from another
Pointer(m, now) == "auto:" \o m.Name \o "@" \o ToString(now)

(***************************************************************************)
(* The migrations a caller may register.  Timestamp is in ticks            *)
(* (time.Time); the ledger stores Timestamp.Unix(), whole seconds.         *)
(***************************************************************************)
MigrationIDs == {"m1", "m2", "m3", "m4"}

Migration(id) ==
    CASE id = "m1" ->
           [ID |-> "m1", Name |-> "create_users", Timestamp |-> 1,
            Up |-> <<CreateTable("users", <<"INTEGER", "text">>)>>,
            Down |-> <<DropTable("users")>>]
      [] id = "m2" ->
           [ID |-> "m2", Name |-> "add_email_to_users", Timestamp |-> 2,
            Up |-> <<AddColumn("users", "email", "TEXT")>>,
            Down |-> <<DropColumn("users", "email")>>]
      [] id = "m3" ->
           [ID |-> "m3", Name |-> "create_teams", Timestamp |-> 3,
            Up |-> <<CreateTable("teams", <<"integer">>),
                     CreateIndex("teams", "idx_teams_name")>>,
            Down |-> <<DropIndex("teams", "idx_teams_name"),
                       DropTable("teams")>>]
      [] id = "m4" ->
           [ID |-> "m4", Name |-> "invalid_migration", Timestamp |-> 4,
            Up |-> <<CreateTable("audit", <<"INVALID_TYPE">>)>>,
            Down |-> <<DropTable("audit")>>]
      [] OTHER -> built[id]

(***************************************************************************)
(* SQL(): the statement an operation renders, as far as the schema sees it *)
(***************************************************************************)
SQL(op) ==
    [verb |-> CASE op.kind \in {"CreateTable"} -> "CREATE TABLE"
                [] op.kind = "DropTable" -> "DROP TABLE"
                [] op.kind \in {"AddColumn", "CreateIndex"} -> "ADD"
                [] op.kind = "ModifyColumn" -> "RENAME"
                [] OTHER -> "DROP",
     table |-> op.table, part |-> op.part,
     to |-> IF op.kind = "ModifyColumn" THEN op.to ELSE ""]

\* whether the store accepts the statement on schema sch
CanExec(sch, st) ==
    CASE st.verb = "CREATE TABLE" -> <<st.table, "">> \notin sch
      [] st.verb = "DROP TABLE" -> <<st.table, "">> \in sch
      [] st.verb = "ADD" -> /\ <<st.table, "">> \in sch
                            /\ <<st.table, st.part>> \notin sch
      [] st.verb = "RENAME" -> /\ <<st.table, st.part>> \in sch
                               /\ <<st.table, st.to>> \notin sch
      [] OTHER -> <<st.table, st.part>> \in sch

\* the schema after the statement
Apply(sch, st) ==
    CASE st.verb = "CREATE TABLE" -> sch \cup {<<st.table, "">>}
      [] st.verb = "DROP TABLE" -> {o \in sch : o[1] # st.table}
      [] st.verb = "ADD" -> sch \cup {<<st.table, st.part>>}
      [] st.verb = "RENAME" ->
           (sch \ {<<st.table, st.part>>}) \cup {<<st.table, st.to>>}
      [] OTHER -> sch \ {<<st.table, st.part>>}

(***************************************************************************)
(* Type validation (migrator.go, validateSQLType / validateOperation)      *)
(***************************************************************************)
ToUpper(t) ==
    CASE t = "integer" -> "INTEGER"
      [] t = "text" -> "TEXT"
      [] t = "real" -> "REAL"
      [] t = "blob" -> "BLOB"
      [] t = "null" -> "NULL"
      [] t = "Text" -> "TEXT"
      [] t = "varchar" -> "VARCHAR"
      [] OTHER -> t

validateSQLType(sqlType) ==
    ToUpper(sqlType) \in {"INTEGER", "TEXT", "REAL", "BLOB"}

\* nil (TRUE) or an error (FALSE)
validateOperation(op) ==
    CASE op.kind = "CreateTable" ->
           \A i \in 1..Len(op.types) : validateSQLType(op.types[i])
      [] op.kind = "AddColumn" -> validateSQLType(op.types[1])
      [] OTHER -> TRUE

(***************************************************************************)
(* The run of one call: the store as the call sees it (led, sch, tbl), the *)
(* Go variable err, the value the call returns (ret, "nil" while it has    *)
(* not returned an error), the store calls made so far (n) and the log of  *)
(* what the call did.                                                      *)
(***************************************************************************)
Event(e, m, k, ok) == [e |-> e, m |-> m, k |-> k, ok |-> ok]

Start ==
    [led |-> ledger, sch |-> schema, tbl |-> tableExists,
     err |-> "nil", ret |-> "nil", n |-> 0, log |-> <<>>]

\* the store call the run is about to make is the one the store rejects
Fails(s, failAt) == s.n + 1 = failAt

Logged(s, e, m, k, ok) ==
    [s EXCEPT !.n = @ + 1, !.log = Append(@, Event(e, m, k, ok))]

Initialize_skipped(s, failAt) == s

\* Initialize: CREATE TABLE IF NOT EXISTS migrations
Initialize(s, failAt) ==
    IF Fails(s, failAt)
    THEN [Logged(s, "init", "", 0, FALSE) EXCEPT !.err = "init", !.ret = "init"]
    ELSE [Logged(s, "init", "", 0, TRUE) EXCEPT !.tbl = TRUE]

\* getAppliedMigrations: Initialize, then SELECT ... ORDER BY timestamp ASC,
\* which the store refuses when there is no migrations table
getAppliedMigrations(s, failAt) ==
    LET s1 == Initialize(s, failAt)
    IN  IF s1.ret # "nil" THEN s1
        ELSE IF ~s1.tbl
             THEN [Logged(s1, "query", "", 0, FALSE)
                     EXCEPT !.err = "no such table", !.ret = "no such table"]
        ELSE IF Fails(s1, failAt)
             THEN [Logged(s1, "query", "", 0, FALSE)
                     EXCEPT !.err = "query", !.ret = "query"]
             ELSE Logged(s1, "query", "", 0, TRUE)

Max(S) == CHOOSE x \in S : \A y \in S : y <= x

getNextBatchNumber_count(led) == Cardinality(led) + 1

getNextBatchNumber_current(led) == Max({r.batch : r \in led} \cup {1})

\* SELECT COALESCE(MAX(batch), 0) + 1 FROM migrations
getNextBatchNumber(led) == Max({r.batch : r \in led} \cup {0}) + 1

SortedByTimestamp_asRegistered(cat) == {cat}

SortedByTimestamp_overwriting(cat) == {[i \in 1..Len(cat) |-> cat[1]]}

\* sort.Slice(m.migrations, Timestamp.Before): any order the comparison allows
SortedByTimestamp(cat) ==
    LET n == Len(cat)
        perms == {p \in [1..n -> 1..n] : \A i, j \in 1..n : i # j => p[i] # p[j]}
    IN  {[i \in 1..n |-> cat[p[i]]] : p \in
           {q \in perms : \A i, j \in 1..n :
               i < j => ~(Migration(cat[q[j]]).Timestamp
                            < Migration(cat[q[i]]).Timestamp)}}

AppliedIDs_none(led) == {}

\* builds the applied map of UpWithBatch from the records read
AppliedIDs(led) == {r.id : r \in led}

IsPending_all(applied, id) == TRUE

\* if !applied[migration.ID]
IsPending(applied, id) == id \notin applied

\* the index of the first Up operation that fails validation, 0 if none
FirstInvalid(ops) ==
    LET bad == {k \in 1..Len(ops) : ~validateOperation(ops[k])}
    IN  IF bad = {} THEN 0 ELSE CHOOSE k \in bad : \A j \in bad : k <= j

ExecFailed_ignored(err) == FALSE

\* if err != nil after tx.Exec(sql) / m.db.Exec(sql) in UpWithBatch
ExecFailed(err) == err # "nil"

\* the Up statements of one migration, from operation k on
RECURSIVE ExecUp(_, _, _, _)
ExecUp(s, mg, k, failAt) ==
    IF k > Len(mg.Up) THEN s
    ELSE LET st == SQL(mg.Up[k])
             bad == Fails(s, failAt) \/ ~CanExec(s.sch, st)
             s1 == [Logged(s, "exec", mg.ID, k, ~bad)
                      EXCEPT !.err = IF bad THEN "exec" ELSE "nil",
                             !.sch = IF bad THEN @ ELSE Apply(@, st)]
         IN  IF ExecFailed(s1.err) THEN [s1 EXCEPT !.ret = "exec"]
             ELSE ExecUp(s1, mg, k + 1, failAt)

RecordFailed_ignored(err) == FALSE

\* if err != nil after the INSERT INTO migrations in UpWithBatch
RecordFailed(err) == err # "nil"

\* INSERT INTO migrations (id, name, timestamp, applied, batch)
RecordMigration(s, mg, batch, now, failAt) ==
    LET bad == Fails(s, failAt) \/ mg.ID \in AppliedIDs(s.led)
        row == [id |-> mg.ID, name |-> mg.Name, timestamp |-> Unix(mg.Timestamp),
                applied |-> now, batch |-> batch]
        s1 == [Logged(s, "insert", mg.ID, 0, ~bad)
                 EXCEPT !.err = IF bad THEN "record" ELSE "nil",
                        !.led = IF bad THEN @ ELSE @ \cup {row}]
    IN  IF RecordFailed(s1.err) THEN [s1 EXCEPT !.ret = "record"] ELSE s1

\* the loop of UpWithBatch over the sorted catalog, from index i on
RECURSIVE RunPending(_, _, _, _, _, _, _)
RunPending(s, cat, i, applied, batch, now, failAt) ==
    IF i > Len(cat) THEN s
    ELSE LET mg == Migration(cat[i])
         IN  IF ~IsPending(applied, mg.ID)
             THEN RunPending(s, cat, i + 1, applied, batch, now, failAt)
             ELSE LET v == FirstInvalid(mg.Up)
                  IN  IF v # 0
                      THEN \* return fmt.Errorf(...): the function's err is not set
                           [s EXCEPT !.ret = "validation",
                                     !.log = Append(@, Event("validate", mg.ID, v, FALSE))]
                      ELSE LET s0 == [s EXCEPT !.log =
                                        Append(@, Event("validate", mg.ID, 0, TRUE))]
                               s1 == ExecUp(s0, mg, 1, failAt)
                               s2 == RecordMigration(s1, mg, batch, now, failAt)
                           IN  IF s1.ret # "nil" THEN s1
                               ELSE IF s2.ret # "nil" THEN s2
                               ELSE RunPending(s2, cat, i + 1, applied, batch, now,
                                               failAt)

\* tx, err = m.db.Begin()
Begin(s, failAt) ==
    IF Fails(s, failAt)
    THEN [Logged(s, "begin", "", 0, FALSE) EXCEPT !.err = "begin", !.ret = "begin"]
    ELSE Logged(s, "begin", "", 0, TRUE)

\* err = tx.Commit()
Commit(s, failAt) ==
    IF Fails(s, failAt)
    THEN [Logged(s, "commit", "", 0, FALSE) EXCEPT !.err = "commit", !.ret = "commit"]
    ELSE Logged(s, "commit", "", 0, TRUE)

HasEvent(log, e, ok) == \E i \in 1..Len(log) : log[i].e = e /\ log[i].ok = ok

\* defer func() { if err != nil { tx.Rollback() } }()
Deferred(s) ==
    IF HasEvent(s.log, "begin", TRUE) /\ s.err # "nil"
    THEN [s EXCEPT !.log = Append(@, Event("rollback", "", 0, TRUE))]
    ELSE s

\* what has become of the transaction the call opened when the call returns
TxState(s) ==
    IF ~HasEvent(s.log, "begin", TRUE) THEN "none"
    ELSE IF HasEvent(s.log, "commit", TRUE) THEN "committed"
    ELSE IF HasEvent(s.log, "commit", FALSE) \/ HasEvent(s.log, "rollback", TRUE)
         THEN "rolledback"
    ELSE "open"

Kept_onlyCommitted(useTx, s) == TxState(s) = "committed"

Kept_always(useTx, s) == TRUE

\* if useTx { tx.Exec(...) } else { m.db.Exec(...) }: what the call did to
\* the store lasts when it was done on m.db, or on a tx that was committed
Kept(useTx, s) == ~useTx \/ TxState(s) = "committed"

\* UpWithBatch from m.db.Begin() on: the transaction, the loop, the commit
UpTransactionRun(useTx, s2, cat, applied, batch, now, failAt) ==
    LET s3 == IF useTx THEN Begin(s2, failAt) ELSE s2
        s4 == RunPending(s3, cat, 1, applied, batch, now, failAt)
        s5 == IF useTx THEN Commit(s4, failAt) ELSE s4
    IN  IF s3.ret # "nil" THEN s3
        ELSE IF s4.ret # "nil" THEN Deferred(s4)
        ELSE Deferred(s5)

\* the body of UpWithBatch once the catalog is sorted
UpRun(useTx, cat, now, failAt) ==
    LET s1 == getAppliedMigrations(Start, failAt)
        applied == AppliedIDs(s1.led)
        s2 == IF Fails(s1, failAt)
              THEN [Logged(s1, "nextbatch", "", 0, FALSE)
                      EXCEPT !.err = "nextbatch", !.ret = "nextbatch"]
              ELSE Logged(s1, "nextbatch", "", 0, TRUE)
        batch == getNextBatchNumber(s1.led)
    IN  IF s1.ret # "nil" THEN s1
        ELSE IF s2.ret # "nil" THEN s2
        ELSE UpTransactionRun(useTx, s2, cat, applied, batch, now, failAt)

\* SELECT ... ORDER BY timestamp ASC: the rows in any order the clause allows
OrderByTimestamp(led) ==
    LET n == Cardinality(led)
    IN  {q \in [1..n -> led] :
           /\ \A i, j \in 1..n : i # j => q[i] # q[j]
           /\ \A i, j \in 1..n : i < j => q[i].timestamp <= q[j].timestamp}

LastBatch_first(records) == records[1].batch

\* lastBatch := records[len(records)-1].Batch
LastBatch(records) == records[Len(records)].batch

InLastBatch_orLater(record, lastBatch) == record.batch >= lastBatch

InLastBatch_never(record, lastBatch) == FALSE

\* if record.Batch == lastBatch
InLastBatch(record, lastBatch) == record.batch = lastBatch

\* the filter loop of DownWithBatch
ToRollback(records) ==
    SelectSeq(records, LAMBDA r : InLastBatch(r, LastBatch(records)))

\* the first registered migration with the record's ID, 0 if there is none
FindMigration(cat, id) ==
    LET found == {j \in 1..Len(cat) : Migration(cat[j]).ID = id}
    IN  IF found = {} THEN 0 ELSE CHOOSE j \in found : \A k \in found : j <= k

RollbackFailed_ignored(err) == FALSE

\* if err != nil after tx.Exec(sql) / m.db.Exec(sql) in DownWithBatch
RollbackFailed(err) == err # "nil"

\* the Down statements of one migration, from operation k on
RECURSIVE ExecDown(_, _, _, _)
ExecDown(s, mg, k, failAt) ==
    IF k > Len(mg.Down) THEN s
    ELSE LET st == SQL(mg.Down[k])
             bad == Fails(s, failAt) \/ ~CanExec(s.sch, st)
             s1 == [Logged(s, "exec", mg.ID, k, ~bad)
                      EXCEPT !.err = IF bad THEN "exec" ELSE "nil",
                             !.sch = IF bad THEN @ ELSE Apply(@, st)]
         IN  IF RollbackFailed(s1.err) THEN [s1 EXCEPT !.ret = "exec"]
             ELSE ExecDown(s1, mg, k + 1, failAt)

RemoveRecord_keeps(s, id, failAt) ==
    LET bad == Fails(s, failAt)
        s1 == [Logged(s, "delete", id, 0, ~bad)
                 EXCEPT !.err = IF bad THEN "remove" ELSE "nil"]
    IN  IF s1.err # "nil" THEN [s1 EXCEPT !.ret = "remove"] ELSE s1

\* DELETE FROM migrations WHERE id = ?
RemoveRecord(s, id, failAt) ==
    LET bad == Fails(s, failAt)
        s1 == [Logged(s, "delete", id, 0, ~bad)
                 EXCEPT !.err = IF bad THEN "remove" ELSE "nil",
                        !.led = IF bad THEN @ ELSE {r \in @ : r.id # id}]
    IN  IF s1.err # "nil" THEN [s1 EXCEPT !.ret = "remove"] ELSE s1

\* the loop of DownWithBatch: for i := len(toRollback) - 1; i >= 0; i--
RECURSIVE RunRollback(_, _, _, _, _)
RunRollback(s, cat, toRollback, i, failAt) ==
    IF i = 0 THEN s
    ELSE LET record == toRollback[i]
             j == FindMigration(cat, record.id)
         IN  IF j = 0
             THEN \* return fmt.Errorf(...): the function's err is not set
                  [s EXCEPT !.ret = "notfound",
                            !.log = Append(@, Event("find", record.id, 0, FALSE))]
             ELSE LET s1 == ExecDown(s, Migration(cat[j]), 1, failAt)
                      s2 == RemoveRecord(s1, record.id, failAt)
                  IN  IF s1.ret # "nil" THEN s1
                      ELSE IF s2.ret # "nil" THEN s2
                      ELSE RunRollback(s2, cat, toRollback, i - 1, failAt)

\* the body of DownWithBatch, records being the rows as the query returned them
NothingApplied_never(records) == FALSE

\* if len(records) == 0 { return nil }
NothingApplied(records) == Len(records) = 0

DownRun(useTx, records, failAt) ==
    LET s1 == getAppliedMigrations(Start, failAt)
        s2 == IF useTx THEN Begin(s1, failAt) ELSE s1
        toRollback == ToRollback(records)
        s3 == RunRollback(s2, migrations, toRollback, Len(toRollback), failAt)
        s4 == IF useTx THEN Commit(s3, failAt) ELSE s3
    IN  IF s1.ret # "nil" THEN s1
        ELSE IF NothingApplied(records) THEN s1
        ELSE IF s2.ret # "nil" THEN s2
        ELSE IF s3.ret # "nil" THEN Deferred(s3)
        ELSE Deferred(s4)

StatusEntry_pending(led, id) ==
    [id |-> id, applied |-> FALSE, time |-> 0, batch |-> 0]

\* one entry of the list Status returns
StatusEntry(led, id) ==
    LET rows == {r \in led : r.id = Migration(id).ID}
    IN  IF rows # {}
        THEN [id |-> id, applied |-> TRUE,
              time |-> (CHOOSE r \in rows : TRUE).applied,
              batch |-> (CHOOSE r \in rows : TRUE).batch]
        ELSE [id |-> id, applied |-> FALSE, time |-> 0, batch |-> 0]

StatusRun_applying(failAt) == UpRun(FALSE, migrations, clock, failAt)

\* the body of Status
StatusRun(failAt) ==
    LET s1 == Initialize(Start, failAt)
    IN  IF s1.ret # "nil" THEN s1 ELSE getAppliedMigrations(s1, failAt)

\* what is remembered of the call before: nothing
NoPrior == [down |-> FALSE, ledger |-> {}, after |-> {}]

\* the successful Down calls made in a row: how many, and how many rows the
\* ledger had before the first of them
NoStreak == [n |-> 0, calls |-> 0]

\* the row of Down calls after a Down with run s on the ledger of now
Counted(s) ==
    LET n == IF last.streak.calls = 0 THEN Cardinality(ledger)
             ELSE last.streak.n
    IN  IF s.ret # "nil" THEN NoStreak
        ELSE IF ledger = {} THEN [n |-> n, calls |-> last.streak.calls]
        ELSE [n |-> n, calls |-> last.streak.calls + 1]

\* the record of a call: what it was, what it returned, what it did
CallRecord(op, useTx, s, batch, records) ==
    [op |-> op, useTx |-> useTx, ret |-> s.ret, tx |-> TxState(s),
     batch |-> batch, log |-> s.log, preLedger |-> ledger,
     preSchema |-> schema, preCatalog |-> migrations, records |-> records,
     toRollback |-> IF records = <<>> THEN <<>> ELSE ToRollback(records),
     status |-> <<>>, arg |-> DropTable(""),
     prior |-> IF op = "Up" THEN last.prior ELSE NoPrior,
     streak |-> IF op = "Down" THEN Counted(s) ELSE NoStreak]

\* no call is in progress
NoCall ==
    [op |-> "none", useTx |-> FALSE, ret |-> "nil", tx |-> "none", batch |-> 0,
     log |-> <<>>, preLedger |-> {}, preSchema |-> {}, preCatalog |-> <<>>,
     records |-> <<>>, toRollback |-> <<>>, status |-> <<>>,
     arg |-> DropTable(""), prior |-> NoPrior, streak |-> NoStreak]

(***************************************************************************)
(* Transactions (package theory, transaction.go).  A Transaction object    *)
(* holds the sql.Tx it runs on (0: nil), the savepoint that makes it a     *)
(* nested transaction (0: none) and its parent.  Begin never changes its   *)
(* receiver: it returns a new object.  The name of a savepoint is printed  *)
(* from the address of the object Begin was called on, so it is that       *)
(* object's index here.                                                    *)
(*                                                                         *)
(* A sql.Tx is the sequence of what has been done on it and not undone:    *)
(* rows written and savepoints set.  Rows are numbered as they are        *)
(* written; since is the number of rows that had been written when the     *)
(* object was created.                                                     *)
(***************************************************************************)
MaxTransactions == 4
MaxWrites == 1

\* NewTransaction(db)
NewTransaction == [tx |-> 0, savepoint |-> 0, parent |-> 0, since |-> 0]

\* fmt.Sprintf("sp_%p", t)
SavepointName(t) == t

\* entries of a sql.Tx
Row(by, seq) == [sp |-> 0, row |-> [by |-> by, seq |-> seq]]
Mark(name) == [sp |-> name, row |-> [by |-> 0, seq |-> 0]]

\* the rows among the entries
RowsOf(work) == {work[i].row : i \in {j \in 1..Len(work) : work[j].sp = 0}}

NoResult ==
    [op |-> "none", obj |-> 0, ret |-> 0, err |-> "nil", issued |-> 0,
     tx |-> 0, before |-> {}]

Result(op, obj, ret, err, issued) ==
    [op |-> op, obj |-> obj, ret |-> ret, err |-> err, issued |-> issued,
     tx |-> txn.objs[obj].tx,
     before |-> IF txn.objs[obj].tx = 0 \/ op # "Rollback" THEN {}
                ELSE RowsOf(txn.conns[txn.objs[obj].tx].work)]

\* Transaction.mu, a sync.RWMutex: the number of read locks held and the
\* goroutine that has called Lock ("": none), waiting for the readers to
\* leave or holding the lock.  While there is one, RLock blocks.
Unlocked == [readers |-> 0, writer |-> ""]

\* the goroutines that call methods of the same Transaction objects
Goroutines == {"g1", "g2"}

\* a goroutine that is in no call
NotCalling == [op |-> "none", t |-> 0, at |-> "idle"]

NoTransactions ==
    [objs |-> <<NewTransaction>>, conns |-> <<>>, rows |-> {}, writes |-> 0,
     res |-> NoResult,
     mu |-> [t \in 1..MaxTransactions |-> Unlocked],
     pc |-> [g \in Goroutines |-> NotCalling]]

\* the most recent savepoint of that name (0: there is none)
FindSavepoint(work, name) ==
    Max({0} \cup {i \in 1..Len(work) : work[i].sp = name})

\* RELEASE SAVEPOINT name: the savepoint and the ones set after it go,
\* the rows stay
ReleaseSavepoint(work, name) ==
    LET i == FindSavepoint(work, name)
    IN  SubSeq(work, 1, i - 1)
        \o SelectSeq(SubSeq(work, i + 1, Len(work)), LAMBDA e : e.sp = 0)

\* ROLLBACK TO SAVEPOINT name: what came after the savepoint goes, the
\* savepoint stays
RollbackToSavepoint(work, name) == SubSeq(work, 1, FindSavepoint(work, name))

\* a statement on a sql.Tx is refused once the sql.Tx is done
TxDone(c) == txn.conns[c].done

SetConn(c, conn) == [txn.conns EXCEPT ![c] = conn]
SetTx_kept(t, tx) == txn.objs
SetTx(t, tx) == [txn.objs EXCEPT ![t].tx = tx]

\* Transaction.Begin
TransactionBegin(t, opts, fail) ==
    LET o == txn.objs[t]
        new == Len(txn.objs) + 1
    IN  /\ txn.res.op = "none"
        /\ IF o.tx # 0
           THEN IF opts = "nested"
                THEN /\ Len(txn.objs) < MaxTransactions
                     /\ IF fail \/ TxDone(o.tx)
                        THEN txn' = [txn EXCEPT !.res =
                                 Result("Begin", t, 0,
                                        "failed to create savepoint", 1)]
                        ELSE txn' = [txn EXCEPT
                                 !.conns = SetConn(o.tx,
                                     [txn.conns[o.tx] EXCEPT !.work =
                                         Append(@, Mark(SavepointName(t)))]),
                                 !.objs = Append(@,
                                     [tx |-> o.tx,
                                      savepoint |-> SavepointName(t),
                                      parent |-> t,
                                      since |-> txn.writes]),
                                 !.res = Result("Begin", t, new, "nil", 1)]
                ELSE /\ ~fail
                     /\ txn' = [txn EXCEPT !.res =
                            Result("Begin", t, 0,
                                   "transaction already started", 0)]
           ELSE IF opts = "nil"
                THEN /\ ~fail
                     /\ txn' = [txn EXCEPT !.res =
                            Result("Begin", t, 0, "panic", 0)]
                ELSE /\ Len(txn.objs) < MaxTransactions
                     /\ IF fail
                        THEN txn' = [txn EXCEPT !.res =
                                 Result("Begin", t, 0,
                                        "failed to begin transaction", 1)]
                        ELSE txn' = [txn EXCEPT
                                 !.conns = Append(@,
                                     [done |-> FALSE, work |-> <<>>]),
                                 !.objs = Append(@,
                                     [tx |-> Len(txn.conns) + 1,
                                      savepoint |-> 0, parent |-> 0,
                                      since |-> 0]),
                                 !.res = Result("Begin", t, new, "nil", 1)]
        /\ UNCHANGED <<migrations, ledger, schema, tableExists, clock, last,
                       inflight, built>>

\* Transaction.Commit
TransactionCommit(t, fail) ==
    LET o == txn.objs[t]
    IN  /\ txn.res.op = "none"
        /\ IF o.tx = 0
           THEN /\ ~fail
                /\ txn' = [txn EXCEPT !.res =
                       Result("Commit", t, 0, "no transaction in progress", 0)]
           ELSE IF o.savepoint # 0
                THEN IF \/ fail
                        \/ TxDone(o.tx)
                        \/ FindSavepoint(txn.conns[o.tx].work, o.savepoint) = 0
                     THEN txn' = [txn EXCEPT !.res =
                              Result("Commit", t, 0,
                                     "failed to release savepoint", 1)]
                     ELSE txn' = [txn EXCEPT
                              !.conns = SetConn(o.tx,
                                  [txn.conns[o.tx] EXCEPT !.work =
                                      ReleaseSavepoint(@, o.savepoint)]),
                              !.objs = SetTx(t, 0),
                              !.res = Result("Commit", t, 0, "nil", 1)]
                ELSE IF fail \/ TxDone(o.tx)
                     THEN txn' = [txn EXCEPT !.res =
                              Result("Commit", t, 0,
                                     "failed to commit transaction", 1)]
                     ELSE txn' = [txn EXCEPT
                              !.conns = SetConn(o.tx,
                                  [done |-> TRUE, work |-> <<>>]),
                              !.rows = @ \cup RowsOf(txn.conns[o.tx].work),
                              !.objs = SetTx(t, 0),
                              !.res = Result("Commit", t, 0, "nil", 1)]
        /\ UNCHANGED <<migrations, ledger, schema, tableExists, clock, last,
                       inflight, built>>

\* Transaction.Rollback
TransactionRollback(t, fail) ==
    LET o == txn.objs[t]
    IN  /\ txn.res.op = "none"
        /\ IF o.tx = 0
           THEN /\ ~fail
                /\ txn' = [txn EXCEPT !.res =
                       Result("Rollback", t, 0,
                              "no transaction in progress", 0)]
           ELSE IF o.savepoint # 0
                THEN IF \/ fail
                        \/ TxDone(o.tx)
                        \/ FindSavepoint(txn.conns[o.tx].work, o.savepoint) = 0
                     THEN txn' = [txn EXCEPT !.res =
                              Result("Rollback", t, 0,
                                     "failed to rollback to savepoint", 1)]
                     ELSE txn' = [txn EXCEPT
                              !.conns = SetConn(o.tx,
                                  [txn.conns[o.tx] EXCEPT !.work =
                                      RollbackToSavepoint(@, o.savepoint)]),
                              !.objs = SetTx(t, 0),
                              !.res = Result("Rollback", t, 0, "nil", 1)]
                ELSE IF fail \/ TxDone(o.tx)
                     THEN txn' = [txn EXCEPT !.res =
                              Result("Rollback", t, 0,
                                     "failed to rollback transaction", 1)]
                     ELSE txn' = [txn EXCEPT
                              !.conns = SetConn(o.tx,
                                  [done |-> TRUE, work |-> <<>>]),
                              !.objs = SetTx(t, 0),
                              !.res = Result("Rollback", t, 0, "nil", 1)]
        /\ UNCHANGED <<migrations, ledger, schema, tableExists, clock, last,
                       inflight, built>>

\* Transaction.ExecContext with an INSERT, and Transaction.Create, which
\* builds the INSERT and hands it to ExecContext
TransactionExec(op, t, fail) ==
    LET o == txn.objs[t]
    IN  /\ txn.res.op = "none"
        /\ IF o.tx = 0
           THEN /\ ~fail
                /\ txn' = [txn EXCEPT !.res =
                       Result(op, t, 0, "no transaction in progress", 0)]
           ELSE IF fail \/ TxDone(o.tx)
                THEN txn' = [txn EXCEPT !.res =
                         Result(op, t, 0, "failed", 1)]
                ELSE /\ txn.writes < MaxWrites
                     /\ txn' = [txn EXCEPT
                            !.conns = SetConn(o.tx,
                                [txn.conns[o.tx] EXCEPT !.work =
                                    Append(@, Row(t, txn.writes + 1))]),
                            !.writes = @ + 1,
                            !.res = Result(op, t, 0, "nil", 1)]
        /\ UNCHANGED <<migrations, ledger, schema, tableExists, clock, last,
                       inflight, built>>

TransactionExecContext(t, fail) == TransactionExec("ExecContext", t, fail)

TransactionCreate(t, fail) == TransactionExec("Create", t, fail)

\* Transaction.QueryContext
TransactionQueryContext(t, fail) ==
    LET o == txn.objs[t]
    IN  /\ txn.res.op = "none"
        /\ IF o.tx = 0
           THEN /\ ~fail
                /\ txn' = [txn EXCEPT !.res =
                       Result("QueryContext", t, 0,
                              "no transaction in progress", 0)]
           ELSE txn' = [txn EXCEPT !.res =
                    Result("QueryContext", t, 0,
                           IF fail \/ TxDone(o.tx) THEN "failed" ELSE "nil", 1)]
        /\ UNCHANGED <<migrations, ledger, schema, tableExists, clock, last,
                       inflight, built>>

\* Transaction.InTransaction
InTransaction(t) == txn.objs[t].tx # 0

\* the caller takes the result of the call
TransactionReturn ==
    /\ txn.res.op # "none"
    /\ txn' = [txn EXCEPT !.res = NoResult]
    /\ UNCHANGED <<migrations, ledger, schema, tableExists, clock, last,
                   inflight, built>>

\* the callers that may run Up concurrently, each with a Migrator of its own
Callers == {"a", "b"}

\* a caller that is not in a call
Idle ==
    [pc |-> "idle", cat |-> <<>>, applied |-> {}, batch |-> 0, ret |-> "nil",
     inserted |-> {}]

Init ==
    /\ txn = NoTransactions
    /\ built = [p \in {} |-> p]
    /\ migrations = <<>>
    /\ ledger = {}
    /\ schema = {}
    /\ tableExists = FALSE
    /\ clock = 0
    /\ last = NoCall
    /\ inflight = [c \in Callers |-> Idle]

\* the caller has taken the result of its last call and may call again
Returned == last.op = "none"

\* the call returns to its caller
Return ==
    /\ ~Returned
    /\ last' = NoCall
    /\ UNCHANGED <<migrations, ledger, schema, tableExists, clock, inflight, txn, built>>

\* the call returns to its caller; a Down that succeeded and rolled rows
\* back is remembered, until the catalog changes or another call returns:
\* the ledger before and after it
ReturnRecorded ==
    /\ ~Returned
    /\ last' = [NoCall EXCEPT
                  !.prior = IF /\ last.op = "Down" /\ last.ret = "nil"
                               /\ last.toRollback # <<>>
                            THEN [down |-> TRUE, ledger |-> last.preLedger,
                                  after |-> ledger]
                            ELSE NoPrior]
    /\ UNCHANGED <<migrations, ledger, schema, tableExists, clock, inflight, txn, built>>

\* the call returns to its caller, who keeps count of the Down calls that
\* succeeded in a row
ReturnCounted ==
    /\ ~Returned
    /\ last' = [NoCall EXCEPT !.streak = last.streak]
    /\ UNCHANGED <<migrations, ledger, schema, tableExists, clock, inflight, txn, built>>

\* NewMigrator, after which no Down is remembered
NewMigratorRecorded ==
    /\ Returned
    /\ migrations # <<>>
    /\ migrations' = <<>>
    /\ last' = NoCall
    /\ UNCHANGED <<ledger, schema, tableExists, clock, inflight, txn, built>>

\* Add, after which no Down is remembered
AddRecorded(id) ==
    /\ Returned
    /\ Len(migrations) < MaxCatalog
    /\ \A i \in 1..Len(migrations) : migrations[i] # id
    /\ migrations' = Append(migrations, id)
    /\ last' = NoCall
    /\ UNCHANGED <<ledger, schema, tableExists, clock, inflight, txn, built>>

\* NewMigrator: a new Migrator on the same store, with an empty catalog
NewMigrator ==
    /\ Returned
    /\ migrations # <<>>
    /\ migrations' = <<>>
    /\ UNCHANGED <<ledger, schema, tableExists, clock, last, inflight, txn, built>>

\* Add: append to the catalog (IDs are unique across the catalog)
Add(id) ==
    /\ Returned
    /\ Len(migrations) < MaxCatalog
    /\ \A i \in 1..Len(migrations) : migrations[i] # id
    /\ migrations' = Append(migrations, id)
    /\ UNCHANGED <<ledger, schema, tableExists, clock, last, inflight, txn, built>>

\* the clock after a call that took time
Later == IF clock < MaxClock THEN clock + 1 ELSE clock

\* UpWithBatch(useTx)
UpWithBatch(useTx) ==
    /\ Returned
    /\ getNextBatchNumber(ledger) <= MaxBatch
    /\ \E sorted \in SortedByTimestamp(migrations) :
         \E failAt \in 0..UpRun(useTx, sorted, clock, 0).n :
           LET s == UpRun(useTx, sorted, clock, failAt)
               kept == Kept(useTx, s)
           IN  \* sort.Slice runs once the applied migrations have been read
               /\ migrations' = IF HasEvent(s.log, "query", TRUE) THEN sorted
                                ELSE migrations
               /\ ledger' = IF kept THEN s.led ELSE ledger
               /\ schema' = IF kept THEN s.sch ELSE schema
               /\ tableExists' = s.tbl
               /\ last' = CallRecord("Up", useTx, s, getNextBatchNumber(ledger),
                                     <<>>)
               /\ clock' = Later
               /\ UNCHANGED <<inflight, txn, built>>

\* Up() is UpWithBatch(true)
Up == UpWithBatch(TRUE)

\* DownWithBatch(useTx)
DownWithBatch(useTx) ==
    /\ Returned
    /\ \E records \in OrderByTimestamp(ledger) :
         \E failAt \in 0..DownRun(useTx, records, 0).n :
           LET s == DownRun(useTx, records, failAt)
               kept == Kept(useTx, s)
           IN  /\ ledger' = IF kept THEN s.led ELSE ledger
               /\ schema' = IF kept THEN s.sch ELSE schema
               /\ tableExists' = s.tbl
               /\ last' = CallRecord("Down", useTx, s,
                                     IF Len(records) = 0 THEN 0
                                     ELSE LastBatch(records),
                                     records)
               /\ clock' = Later
               /\ UNCHANGED <<migrations, inflight, txn, built>>

\* Down() is DownWithBatch(true)
Down == DownWithBatch(TRUE)

\* Status
Status ==
    /\ Returned
    /\ \E failAt \in 0..StatusRun(0).n :
         LET s == StatusRun(failAt)
         IN  /\ ledger' = s.led
             /\ schema' = s.sch
             /\ tableExists' = s.tbl
             /\ last' = [CallRecord("Status", FALSE, s, 0, <<>>) EXCEPT
                           !.status = IF s.ret # "nil" THEN <<>>
                                      ELSE [i \in 1..Len(migrations) |->
                                              StatusEntry(s.led, migrations[i])]]
             /\ UNCHANGED <<migrations, clock, inflight, txn, built>>

\* Initialize
InitializeTable ==
    /\ Returned
    /\ \E failAt \in 0..1 :
         LET s == Initialize(Start, failAt)
         IN  /\ tableExists' = s.tbl
             /\ last' = CallRecord("Initialize", FALSE, s, 0, <<>>)
             /\ UNCHANGED <<migrations, ledger, schema, clock, inflight, txn, built>>

(***************************************************************************)
(* Spec: the Migrator used through Up() and Down(), the transactional      *)
(* entry points.  SpecWithBatch: used through UpWithBatch and              *)
(* DownWithBatch in either mode.                                           *)
(***************************************************************************)
Next ==
    \/ Return
    \/ \E id \in MigrationIDs : Add(id)
    \/ NewMigrator
    \/ InitializeTable
    \/ Status
    \/ Up
    \/ Down

Spec == Init /\ [][Next]_vars

NextWithBatch ==
    \/ Return
    \/ \E id \in MigrationIDs : Add(id)
    \/ NewMigrator
    \/ InitializeTable
    \/ Status
    \/ \E useTx \in BOOLEAN : UpWithBatch(useTx)
    \/ \E useTx \in BOOLEAN : DownWithBatch(useTx)

SpecWithBatch == Init /\ [][NextWithBatch]_vars

(***************************************************************************)
(* SpecHistory: as Spec, and an Up knows of the Down that returned just    *)
(* before it on the same catalog.                                          *)
(***************************************************************************)
NextHistory ==
    \/ ReturnRecorded
    \/ \E id \in MigrationIDs : AddRecorded(id)
    \/ NewMigratorRecorded
    \/ InitializeTable
    \/ Status
    \/ Up
    \/ Down

SpecHistory == Init /\ [][NextHistory]_vars

(***************************************************************************)
(* SpecValidate: validateOperation on its own, applied to the operations a *)
(* caller may build over the type names below.                             *)
(***************************************************************************)
TypeNames ==
    {"INTEGER", "integer", "Text", "REAL", "real", "BLOB", "blob", "NULL",
     "null", "INVALID_TYPE", "varchar"}

Operations ==
    {CreateTable("users", <<>>)}
      \cup {CreateTable("users", <<t>>) : t \in TypeNames}
      \cup {CreateTable("users", <<t, u>>) : t \in TypeNames, u \in TypeNames}
      \cup {AddColumn("users", "email", t) : t \in TypeNames}
      \cup {ModifyColumn("users", "email", "mail", t) : t \in TypeNames}
      \cup {DropTable("users"), DropColumn("users", "email"),
            CreateIndex("users", "idx_users_email"),
            DropIndex("users", "idx_users_email")}

\* m.validateOperation(op)
Validate(op) ==
    /\ Returned
    /\ last' = [NoCall EXCEPT !.op = "validateOperation", !.arg = op,
                              !.ret = IF validateOperation(op) THEN "nil"
                                      ELSE "validation"]
    /\ UNCHANGED <<migrations, ledger, schema, tableExists, clock, inflight, txn, built>>

NextValidate ==
    \/ Return
    \/ \E op \in Operations : Validate(op)

SpecValidate == Init /\ [][NextValidate]_vars

(***************************************************************************)
(* SpecConcurrent: Up() called by concurrent callers on the same store,    *)
(* each with its own Migrator.  A call makes its store calls one after     *)
(* another: the ledger query, the batch query, then the transaction, which *)
(* the store runs in isolation.  Calls of other callers come in between.   *)
(***************************************************************************)
\* the catalogs a Migrator may hold
Catalogs ==
    UNION {{q \in [1..n -> MigrationIDs] :
              \A i, j \in 1..n : i # j => q[i] # q[j]} :
             n \in 1..MaxCallerCatalog}

SetCaller(c, r) == [inflight EXCEPT ![c] = r]

Done(ret) == [Idle EXCEPT !.pc = "done", !.ret = ret]

\* UpWithBatch up to the sort: getAppliedMigrations, the applied map, sort
UpGetApplied(c) ==
    /\ inflight[c].pc = "idle"
    /\ \E cat \in Catalogs :
         \E sorted \in SortedByTimestamp(cat) :
           \E failAt \in 0..getAppliedMigrations(Start, 0).n :
             LET s == getAppliedMigrations(Start, failAt)
             IN  /\ tableExists' = s.tbl
                 /\ inflight' =
                      SetCaller(c, IF s.ret # "nil" THEN Done(s.ret)
                                   ELSE [Idle EXCEPT !.pc = "applied",
                                                     !.cat = sorted,
                                                     !.applied = AppliedIDs(s.led)])
    /\ UNCHANGED <<migrations, ledger, schema, clock, last, txn, built>>

\* batch, err := m.getNextBatchNumber()
UpGetNextBatch(c) ==
    /\ inflight[c].pc = "applied"
    /\ getNextBatchNumber(ledger) <= MaxBatch
    /\ \E failed \in BOOLEAN :
         inflight' =
           SetCaller(c, IF failed THEN Done("nextbatch")
                        ELSE [inflight[c] EXCEPT
                                !.pc = "batch",
                                !.batch = getNextBatchNumber(ledger)])
    /\ UNCHANGED <<migrations, ledger, schema, tableExists, clock, last, txn, built>>

BatchOfCall_atInsert(me) == getNextBatchNumber(ledger)

\* the variable batch of UpWithBatch when the loop inserts a ledger row
BatchOfCall(me) == me.batch

\* UpWithBatch from m.db.Begin() to the return
UpTransaction(c) ==
    /\ inflight[c].pc = "batch"
    /\ LET me == inflight[c]
       IN  \E failAt \in 0..UpTransactionRun(TRUE, Start, me.cat, me.applied,
                                             BatchOfCall(me), clock, 0).n :
             LET s == UpTransactionRun(TRUE, Start, me.cat, me.applied,
                                       BatchOfCall(me), clock, failAt)
                 kept == TxState(s) = "committed"
             IN  /\ ledger' = IF kept THEN s.led ELSE ledger
                 /\ schema' = IF kept THEN s.sch ELSE schema
                 /\ inflight' =
                      SetCaller(c, [Done(s.ret) EXCEPT
                                      !.batch = me.batch,
                                      !.inserted = IF kept THEN s.led \ ledger
                                                   ELSE {}])
                 /\ clock' = Later
    /\ UNCHANGED <<migrations, tableExists, last, txn, built>>

\* the call returns to its caller
UpReturn(c) ==
    /\ inflight[c].pc = "done"
    /\ inflight' = SetCaller(c, Idle)
    /\ UNCHANGED <<migrations, ledger, schema, tableExists, clock, last, txn, built>>

NextConcurrent ==
    \E c \in Callers :
      \/ UpGetApplied(c)
      \/ UpGetNextBatch(c)
      \/ UpTransaction(c)
      \/ UpReturn(c)

SpecConcurrent == Init /\ [][NextConcurrent]_vars

(***************************************************************************)
(* A caller that rolls back batch after batch.                             *)
(***************************************************************************)
NextDrain ==
    \/ ReturnCounted
    \/ \E id \in MigrationIDs : Add(id)
    \/ Up
    \/ Down

SpecDrain == Init /\ [][NextDrain]_vars

(***************************************************************************)
(* A caller that registers a migration more than once: Add has no check.   *)
(***************************************************************************)
\* Add of a migration that is in the catalog already
AddAgain(id) ==
    /\ Returned
    /\ Len(migrations) < MaxCatalog
    /\ \E i \in 1..Len(migrations) : migrations[i] = id
    /\ migrations' = Append(migrations, id)
    /\ UNCHANGED <<ledger, schema, tableExists, clock, last, inflight, txn, built>>

NextDuplicates ==
    \/ Return
    \/ \E id \in MigrationIDs : Add(id) \/ AddAgain(id)
    \/ \E useTx \in BOOLEAN : UpWithBatch(useTx)
    \/ Down

SpecDuplicates == Init /\ [][NextDuplicates]_vars

(***************************************************************************)
(* Rendering (migration.go, the SQL methods): the statement text of an     *)
(* operation.  The tables rendered here have columns only, no foreign keys *)
(* and no indexes.                                                         *)
(***************************************************************************)
MaxColumns == 2

\* Column{Name, Type, IsPK, IsAuto, IsNull}
Column(name, type, isPK, isAuto, isNull) ==
    [Name |-> name, Type |-> type, IsPK |-> isPK, IsAuto |-> isAuto,
     IsNull |-> isNull]

ColumnNames == {"id", "name"}

ColumnTypes == {"INTEGER", "TEXT"}

Columns ==
    {Column(n, t, pk, auto, null) :
        n \in ColumnNames, t \in ColumnTypes,
        pk \in BOOLEAN, auto \in BOOLEAN, null \in BOOLEAN}

\* the columns of the tables rendered: an INTEGER id or a TEXT name, with
\* any flags
TableColumns == {c \in Columns : (c.Name = "id") <=> (c.Type = "INTEGER")}

\* the column lists of up to MaxColumns columns
ColumnLists == UNION {[1..n -> TableColumns] : n \in 1..MaxColumns}

\* strings.Join(parts, sep)
RECURSIVE Join(_, _)
Join(parts, sep) ==
    IF Len(parts) = 0 THEN ""
    ELSE IF Len(parts) = 1 THEN parts[1]
    ELSE parts[1] \o sep \o Join(Tail(parts), sep)

ColumnSQL_notNullOnKey(col) ==
    col.Name \o " " \o col.Type
      \o (IF col.IsPK
          THEN IF col.IsAuto THEN " PRIMARY KEY AUTOINCREMENT"
               ELSE " PRIMARY KEY"
          ELSE "")
      \o (IF ~col.IsNull THEN " NOT NULL" ELSE "")

\* CreateTable.SQL: the definition of one column
ColumnSQL(col) ==
    LET def == col.Name \o " " \o col.Type
        def1 == IF col.IsPK
                THEN IF col.IsAuto THEN def \o " PRIMARY KEY AUTOINCREMENT"
                     ELSE def \o " PRIMARY KEY"
                ELSE def
    IN  IF ~col.IsPK /\ ~col.IsNull THEN def1 \o " NOT NULL" ELSE def1

\* CreateTable.SQL
CreateTableSQL(name, cols) ==
    "CREATE TABLE " \o name \o " (\n\t"
      \o Join([i \in 1..Len(cols) |-> ColumnSQL(cols[i])], ",\n\t")
      \o "\n)"

ModifyColumnSQL_withType(table, oldColumn, newColumn) ==
    "ALTER TABLE " \o table \o " RENAME COLUMN " \o oldColumn \o " TO "
      \o newColumn.Name \o " " \o newColumn.Type

\* ModifyColumn.SQL
ModifyColumnSQL(table, oldColumn, newColumn) ==
    "ALTER TABLE " \o table \o " RENAME COLUMN " \o oldColumn \o " TO "
      \o newColumn.Name

\* (&CreateTable{Name: name, Columns: cols}).SQL()
RenderCreateTable(name, cols) ==
    /\ Returned
    /\ last' = [NoCall EXCEPT
                   !.op = "CreateTable.SQL",
                   !.arg = [Name |-> name, Columns |-> cols],
                   !.ret = CreateTableSQL(name, cols)]
    /\ UNCHANGED <<migrations, ledger, schema, tableExists, clock, inflight, txn, built>>

\* (&ModifyColumn{Table: table, OldColumn: oldColumn, NewColumn: newColumn}).SQL()
RenderModifyColumn(table, oldColumn, newColumn) ==
    /\ Returned
    /\ last' = [NoCall EXCEPT
                   !.op = "ModifyColumn.SQL",
                   !.arg = [Table |-> table, OldColumn |-> oldColumn,
                            NewColumn |-> newColumn],
                   !.ret = ModifyColumnSQL(table, oldColumn, newColumn)]
    /\ UNCHANGED <<migrations, ledger, schema, tableExists, clock, inflight, txn, built>>

NextRender ==
    \/ Return
    \/ \E cols \in ColumnLists : RenderCreateTable("users", cols)
    \/ \E new \in Columns : RenderModifyColumn("users", "email", new)

SpecRender == Init /\ [][NextRender]_vars

(***************************************************************************)
(* The methods of Transaction step by step, as goroutines run them: each   *)
(* takes t.mu first, Commit, Rollback and Begin with Lock, ExecContext and *)
(* Create with RLock, and Create calls t.ExecContext while it holds its    *)
(* read lock.  What the statements do to the store is left to the actions  *)
(* above; here a call is followed through its locks and t.tx.              *)
(***************************************************************************)
Readers == {"Create", "ExecContext"}

Writers == {"Commit", "Rollback", "Begin"}

At(g) == txn.pc[g]

Goto(g, at) == [txn.pc EXCEPT ![g].at = at]

\* RLock succeeds at once unless a goroutine has called Lock
CanRLock(t) == txn.mu[t].writer = ""

\* go t.<op>(...)
GoCall(g, op, t) ==
    /\ At(g) = NotCalling
    /\ txn' = [txn EXCEPT !.pc[g] =
               [op |-> op, t |-> t,
                at |-> IF op \in Writers THEN "Lock"
                       ELSE IF op = "Create" THEN "RLock"
                       ELSE "ExecContext.RLock"]]
    /\ UNCHANGED <<migrations, ledger, schema, tableExists, clock, last,
                   inflight, built>>

\* Create: t.mu.RLock(), then `if t.tx == nil { return ... }`
GoRLock(g) ==
    LET t == At(g).t
    IN  /\ At(g).at = "RLock"
        /\ CanRLock(t)
        /\ txn' = [txn EXCEPT
                   !.mu[t].readers = @ + 1,
                   !.pc = Goto(g, IF InTransaction(t) THEN "ExecContext.RLock"
                                  ELSE "RUnlock")]
        /\ UNCHANGED <<migrations, ledger, schema, tableExists, clock, last,
                       inflight, built>>

\* ExecContext: t.mu.RLock(), then the statement on t.tx
GoExecRLock(g) ==
    LET t == At(g).t
    IN  /\ At(g).at = "ExecContext.RLock"
        /\ CanRLock(t)
        /\ txn' = [txn EXCEPT
                   !.mu[t].readers = @ + 1,
                   !.pc = Goto(g, "ExecContext.RUnlock")]
        /\ UNCHANGED <<migrations, ledger, schema, tableExists, clock, last,
                       inflight, built>>

\* ExecContext: the deferred t.mu.RUnlock(); back in Create, or done
GoExecRUnlock(g) ==
    LET t == At(g).t
    IN  /\ At(g).at = "ExecContext.RUnlock"
        /\ txn' = [txn EXCEPT
                   !.mu[t].readers = @ - 1,
                   !.pc = IF At(g).op = "Create" THEN Goto(g, "RUnlock")
                          ELSE [txn.pc EXCEPT ![g] = NotCalling]]
        /\ UNCHANGED <<migrations, ledger, schema, tableExists, clock, last,
                       inflight, built>>

\* Create: the deferred t.mu.RUnlock()
GoRUnlock(g) ==
    LET t == At(g).t
    IN  /\ At(g).at = "RUnlock"
        /\ txn' = [txn EXCEPT
                   !.mu[t].readers = @ - 1,
                   !.pc[g] = NotCalling]
        /\ UNCHANGED <<migrations, ledger, schema, tableExists, clock, last,
                       inflight, built>>

\* t.mu.Lock(): from now on RLock blocks; Lock waits for the readers
GoLock(g) ==
    LET t == At(g).t
    IN  /\ At(g).at = "Lock"
        /\ txn.mu[t].writer = ""
        /\ txn' = [txn EXCEPT
                   !.mu[t].writer = g,
                   !.pc = Goto(g, "Lock.wait")]
        /\ UNCHANGED <<migrations, ledger, schema, tableExists, clock, last,
                       inflight, built>>

\* t.mu.Lock() returns when no read lock is held
GoLocked(g) ==
    LET t == At(g).t
    IN  /\ At(g).at = "Lock.wait"
        /\ txn.mu[t].readers = 0
        /\ txn' = [txn EXCEPT !.pc = Goto(g, "Unlock")]
        /\ UNCHANGED <<migrations, ledger, schema, tableExists, clock, last,
                       inflight, built>>

\* the body of Commit, Rollback or Begin and the deferred t.mu.Unlock():
\* a Commit or Rollback that succeeds sets t.tx = nil
GoUnlock(g, fail) ==
    LET t == At(g).t
        ends == At(g).op \in {"Commit", "Rollback"} /\ InTransaction(t) /\ ~fail
    IN  /\ At(g).at = "Unlock"
        /\ txn' = [txn EXCEPT
                   !.objs = IF ends THEN SetTx(t, 0) ELSE @,
                   !.mu[t].writer = "",
                   !.pc[g] = NotCalling]
        /\ UNCHANGED <<migrations, ledger, schema, tableExists, clock, last,
                       inflight, built>>

\* no goroutine is in a call
AllIdle == \A g \in Goroutines : At(g) = NotCalling

\* one caller alone begins a transaction
BeginAlone ==
    /\ AllIdle
    /\ TransactionBegin(1, "plain", FALSE)

NextLocks ==
    \/ BeginAlone
    \/ TransactionReturn
    \/ \E g \in Goroutines :
           \/ \E op \in Readers \cup Writers, t \in 1..Len(txn.objs) :
                  GoCall(g, op, t)
           \/ GoRLock(g)
           \/ GoExecRLock(g)
           \/ GoExecRUnlock(g)
           \/ GoRUnlock(g)
           \/ GoLock(g)
           \/ GoLocked(g)
           \/ \E fail \in BOOLEAN : GoUnlock(g, fail)

SpecLocks == Init /\ [][NextLocks]_vars

(***************************************************************************)
(* SpecAutoMigrate: DB.AutoMigrate (package theory, theory.go) on the      *)
(* migrator of the DB, and Up on the same migrator.  AutoMigrate is called *)
(* with one model; with more it does the same for each model in turn and   *)
(* stops at the first error.  The call makes two calls of the migrator,    *)
(* Add and Up: AutoMigrateAdd is the call up to Add, AutoMigrateUp the     *)
(* rest of it, and nothing else happens on the DB in between.              *)
(***************************************************************************)
\* the migrations of a catalog that AutoMigrate built
Built(cat) == {i \in 1..Len(cat) : cat[i] \in DOMAIN built}

\* time.Now() in NewMigration: a time in the second of the clock, not
\* before the time of a migration built earlier
Now ==
    {now \in Times :
        /\ Unix(now) = clock
        /\ \A i \in Built(migrations) : Migration(migrations[i]).Timestamp <= now}

\* AutoMigrate has added its migration and is about to call Up
Adding == last.op = "AutoMigrate.Add"

\* db.AutoMigrate(m) up to db.migrator.Add(mig): the metadata, the
\* CreateTable, the migration, Add
AutoMigrateAdd(m) ==
    /\ Returned
    /\ Len(migrations) < MaxCatalog
    /\ getNextBatchNumber(ledger) <= MaxBatch
    /\ LET metadata == ExtractMetadata(m)
       IN  IF metadata.err # "nil"
           THEN /\ last' = [CallRecord("AutoMigrate", TRUE,
                                       [Start EXCEPT !.ret = metadata.err], 0, <<>>)
                              EXCEPT !.arg = CreateTable("", <<>>)]
                /\ UNCHANGED <<migrations, ledger, schema, tableExists, clock,
                               inflight, txn, built>>
           ELSE \E now \in Now :
                  LET mig == AutoMigration(metadata, now)
                  IN  /\ built' = [p \in DOMAIN built \cup {Pointer(m, now)} |->
                                     IF p = Pointer(m, now) THEN mig ELSE built[p]]
                      /\ migrations' = Append(migrations, Pointer(m, now))
                      /\ last' = [NoCall EXCEPT !.op = "AutoMigrate.Add",
                                                !.arg = mig.Up[1]]
                      /\ UNCHANGED <<ledger, schema, tableExists, clock,
                                     inflight, txn>>

\* db.AutoMigrate(m) from err = db.migrator.Up() on
AutoMigrateUp ==
    /\ Adding
    /\ \E sorted \in SortedByTimestamp(migrations) :
         \E failAt \in 0..UpRun(TRUE, sorted, clock, 0).n :
           LET s == UpRun(TRUE, sorted, clock, failAt)
               kept == Kept(TRUE, s)
           IN  /\ migrations' = IF HasEvent(s.log, "query", TRUE) THEN sorted
                                ELSE migrations
               /\ ledger' = IF kept THEN s.led ELSE ledger
               /\ schema' = IF kept THEN s.sch ELSE schema
               /\ tableExists' = s.tbl
               /\ last' = [CallRecord("AutoMigrate", TRUE, s,
                                      getNextBatchNumber(ledger), <<>>)
                             EXCEPT !.arg = last.arg]
               /\ clock' = Later
               /\ UNCHANGED <<inflight, txn, built>>

\* AutoMigrate, or the Up the caller made, returns
AutoMigrateReturn == ~Adding /\ Return

NextAutoMigrate ==
    \/ AutoMigrateReturn
    \/ \E m \in Models : AutoMigrateAdd(m)
    \/ AutoMigrateUp
    \/ Up

SpecAutoMigrate == Init /\ [][NextAutoMigrate]_vars

(***************************************************************************)
(* The Transaction objects on their own: any object may be called at any   *)
(* time, and the store may refuse any statement.                           *)
(***************************************************************************)
TxOptions == {"nil", "plain", "nested"}

NextTransaction ==
    \/ TransactionReturn
    \/ \E t \in 1..Len(txn.objs), fail \in BOOLEAN :
           \/ \E opts \in TxOptions : TransactionBegin(t, opts, fail)
           \/ TransactionCommit(t, fail)
           \/ TransactionRollback(t, fail)
           \/ TransactionExecContext(t, fail)
           \/ TransactionCreate(t, fail)
           \/ TransactionQueryContext(t, fail)

SpecTransaction == Init /\ [][NextTransaction]_vars

(***************************************************************************)
(* What the log of the last call says.                                     *)
(***************************************************************************)
Log == last.log

\* some step of the last call failed: a validation or a store call
SomeStepFailed == \E i \in 1..Len(Log) : ~Log[i].ok

\* the positions of the statements and ledger writes the last call made
Writes == {i \in 1..Len(Log) : Log[i].e \in {"exec", "insert", "delete"}}

\* the store is as it was before the last call
StoreAsBefore == ledger = last.preLedger /\ schema = last.preSchema

\* the last call opened a transaction
OpenedTx == HasEvent(Log, "begin", TRUE)

\* the migrations registered when the last call began that had no ledger row
PendingBefore ==
    {last.preCatalog[i] : i \in 1..Len(last.preCatalog)}
      \ {r.id : r \in last.preLedger}

MaxBatchOf(led) ==
    IF led = {} THEN 0
    ELSE CHOOSE b \in {r.batch : r \in led} : \A r \in led : r.batch <= b

\* C1: a transactional Up in which a validation or a store call failed
\* leaves the ledger rows and the schema as they were before the call.
C1_UpAllOrNothing ==
    (last.op = "Up" /\ last.useTx /\ SomeStepFailed) => StoreAsBefore

\* C1 witness: a transactional Up failed after it had executed a statement
\* and recorded a migration.
C1_Witness ==
    /\ last.op = "Up" /\ last.useTx /\ last.ret \in {"exec", "record", "commit"}
    /\ \E i, j \in 1..Len(Log) :
         i < j /\ Log[i].e = "insert" /\ Log[i].ok /\ ~Log[j].ok

\* C2: a transactional Up that returns an error after it opened a
\* transaction has rolled that transaction back when it returns.
C2_UpErrorRollsBack ==
    (last.op = "Up" /\ last.useTx /\ last.ret # "nil" /\ OpenedTx)
      => last.tx = "rolledback"

\* C3: an Up that fails validation has executed no statement and inserted
\* no ledger row: every pending migration is validated before any statement
\* of the call.
C3_ValidationBeforeAnyStatement ==
    (last.op = "Up" /\ last.ret = "validation") => Writes = {}

\* C4: every ledger row a successful Up inserts carries the batch number
\* max(batch numbers before the call) + 1, 1 on an empty ledger.
C4_BatchIsMaxPlusOne ==
    (last.op = "Up" /\ last.ret = "nil") =>
      /\ last.preLedger \subseteq ledger
      /\ {r.id : r \in ledger \ last.preLedger} = PendingBefore
      /\ \A r \in ledger \ last.preLedger :
           r.batch = MaxBatchOf(last.preLedger) + 1

\* C4 witness: a successful Up added two rows to a ledger that had rows.
C4_Witness ==
    /\ last.op = "Up" /\ last.ret = "nil" /\ last.preLedger # {}
    /\ Cardinality(ledger \ last.preLedger) >= 2

\* the rows of the batch the last Down selected
SelectedRows == {r \in last.preLedger : r.batch = last.batch}

\* C5: a successful Down removes exactly the rows of the selected batch and
\* executes all Down operations of exactly their migrations.
C5_DownScopedToBatch ==
    (last.op = "Down" /\ last.ret = "nil" /\ last.preLedger # {}) =>
      /\ ledger = last.preLedger \ SelectedRows
      /\ {Log[i].m : i \in {j \in Writes : Log[j].e = "exec"}}
           = {r.id : r \in SelectedRows}
      /\ {Log[i].m : i \in {j \in Writes : Log[j].e = "delete"}}
           = {r.id : r \in SelectedRows}
      /\ \A r \in SelectedRows :
           \A k \in 1..Len(Migration(r.id).Down) :
             \E i \in Writes : Log[i] = Event("exec", r.id, k, TRUE)

\* C5 witness: a successful Down removed two rows and left another.
C5_Witness ==
    /\ last.op = "Down" /\ last.ret = "nil"
    /\ Cardinality(SelectedRows) >= 2
    /\ ledger # {}

\* the last Down read the ledger and found rows
DownSelected ==
    last.op = "Down" /\ HasEvent(Log, "query", TRUE) /\ last.preLedger # {}

\* C6: the batch Down selects is the greatest batch number in the ledger.
C6_DownSelectsGreatestBatch ==
    DownSelected => last.batch = MaxBatchOf(last.preLedger)

\* C7: the batch DownWithBatch selects is the batch of a ledger row with
\* the greatest timestamp, and it collects every row of that batch.
C7_DownSelectsLastByTimestamp ==
    DownSelected =>
      /\ \E r \in last.preLedger :
           /\ r.batch = last.batch
           /\ \A q \in last.preLedger : q.timestamp <= r.timestamp
      /\ {last.toRollback[i] : i \in 1..Len(last.toRollback)} = SelectedRows
      /\ Len(last.toRollback) = Cardinality(SelectedRows)

\* C7 witness: Down selected a batch that is not the greatest in the ledger
\* and collected two rows.
C7_Witness ==
    /\ DownSelected
    /\ last.batch < MaxBatchOf(last.preLedger)
    /\ Len(last.toRollback) >= 2

\* a Down statement, a ledger delete or the commit of the last call failed
DownStepFailed ==
    \E i \in 1..Len(Log) : Log[i].e \in {"exec", "delete", "commit"} /\ ~Log[i].ok

\* C8: a transactional Down in which a Down statement, a ledger delete or
\* the commit failed returns an error, has rolled its transaction back and
\* leaves ledger and schema as before.
C8_DownAllOrNothing ==
    (last.op = "Down" /\ last.useTx /\ DownStepFailed) =>
      /\ last.ret # "nil"
      /\ last.tx = "rolledback"
      /\ StoreAsBefore

\* C8 witness: a transactional Down failed after it had deleted a row.
C8_Witness ==
    /\ last.op = "Down" /\ last.useTx /\ DownStepFailed
    /\ \E i \in Writes : Log[i].e = "delete" /\ Log[i].ok

\* C9: a transactional Down that finds no registered migration for a row
\* returns 'not found', leaves ledger and schema as before and has rolled
\* its transaction back.
C9_NotFoundRollsBack ==
    (last.op = "Down" /\ last.useTx /\ last.ret = "notfound") =>
      /\ StoreAsBefore
      /\ last.tx = "rolledback"

\* C10: an Up with nothing pending executes no statement and writes no
\* ledger row, and returns success unless a store call fails; a successful
\* Up leaves nothing pending, so a second Up right after it is such a call.
C10_UpIdempotent ==
    /\ (last.op = "Up" /\ PendingBefore = {}) =>
         /\ Writes = {}
         /\ StoreAsBefore
         /\ (~SomeStepFailed => last.ret = "nil")
    /\ (last.op = "Up" /\ last.ret = "nil") =>
         \A i \in 1..Len(migrations) : migrations[i] \in {r.id : r \in ledger}

\* C10 witness: a successful Up on a catalog all of whose migrations, two
\* or more, were applied.
C10_Witness ==
    /\ last.op = "Up" /\ last.ret = "nil" /\ PendingBefore = {}
    /\ Len(last.preCatalog) >= 2

\* C11: within one Up, every statement and ledger insert of a pending
\* migration comes before every statement and ledger insert of a pending
\* migration with a later Timestamp, whatever the order of registration.
C11_UpInTimestampOrder ==
    last.op = "Up" =>
      \A i, j \in Writes :
        Migration(Log[i].m).Timestamp < Migration(Log[j].m).Timestamp => i < j

\* C11 witness: a successful Up applied two migrations that were registered
\* later-Timestamp first.
C11_Witness ==
    /\ last.op = "Up" /\ last.ret = "nil"
    /\ \E i, j \in 1..Len(last.preCatalog) :
         /\ i < j
         /\ Migration(last.preCatalog[j]).Timestamp
              < Migration(last.preCatalog[i]).Timestamp
         /\ {last.preCatalog[i], last.preCatalog[j]} \subseteq PendingBefore
         /\ {last.preCatalog[i], last.preCatalog[j]}
              \subseteq {r.id : r \in ledger}

\* C12: within one Down, every Down statement and the ledger delete of a
\* migration come before every Down statement and the ledger delete of a
\* migration of the batch with an earlier Timestamp.
C12_DownInReverseTimestampOrder ==
    last.op = "Down" =>
      \A i, j \in Writes :
        Migration(Log[i].m).Timestamp > Migration(Log[j].m).Timestamp => i < j

\* C13: a Status that returns no error returns one entry per registered
\* migration, in the catalog's order; the entry is applied, with the row's
\* applied time and batch, exactly when the ledger has a row with the
\* migration's ID, and is not applied with batch 0 otherwise; on an empty
\* catalog the list is empty, and Status fails only when a store call fails.
C13_StatusComplete ==
    last.op = "Status" =>
      /\ last.ret = "nil" <=> ~SomeStepFailed
      /\ last.ret = "nil" =>
           /\ Len(last.status) = Len(migrations)
           /\ \A i \in 1..Len(migrations) :
                LET e == last.status[i]
                    rows == {r \in ledger : r.id = Migration(migrations[i]).ID}
                IN  /\ e.id = migrations[i]
                    /\ e.applied <=> rows # {}
                    /\ e.applied =>
                         \E r \in rows : e.time = r.applied /\ e.batch = r.batch
                    /\ ~e.applied => e.batch = 0

\* C13 witness: a Status that returned an applied and a pending entry.
C13_Witness ==
    /\ last.op = "Status" /\ last.ret = "nil"
    /\ \E i, j \in 1..Len(last.status) :
         last.status[i].applied /\ ~last.status[j].applied

\* C14: the entries Status returns are in ascending order of Timestamp.
C14_StatusSortedByTimestamp ==
    (last.op = "Status" /\ last.ret = "nil") =>
      \A i, j \in 1..Len(last.status) :
        i < j => Migration(last.status[i].id).Timestamp
                   <= Migration(last.status[j].id).Timestamp

\* the schema objects the Up statements of a migration make
RECURSIVE Made(_, _, _)
Made(sch, ops, k) ==
    IF k > Len(ops) THEN sch ELSE Made(Apply(sch, SQL(ops[k])), ops, k + 1)

EffectsOf(id) == Made({}, Migration(id).Up, 1)

\* C15: in every committed store state every registered migration either
\* has a ledger row and all its Up statements in effect, or has no ledger
\* row and none of its Up statements in effect.
C15_AppliedOrPending ==
    \A i \in 1..Len(migrations) :
      LET id == migrations[i]
      IN  \/ /\ id \in {r.id : r \in ledger}
             /\ EffectsOf(id) \subseteq schema
          \/ /\ id \notin {r.id : r \in ledger}
             /\ EffectsOf(id) \cap schema = {}

\* the type names the claim accepts: INTEGER, TEXT, REAL, BLOB or NULL in
\* any case
AcceptedByClaim ==
    {"INTEGER", "integer", "Text", "REAL", "real", "BLOB", "blob", "NULL",
     "null"}

\* C16: validateOperation returns no error exactly when every column type
\* of a CreateTable, the column type of an AddColumn and the new column's
\* type of a ModifyColumn is INTEGER, TEXT, REAL, BLOB or NULL, compared
\* case-insensitively.
C16_ValidationAllowList ==
    last.op = "validateOperation" =>
      (last.ret = "nil" <=>
         (last.arg.kind \in {"CreateTable", "AddColumn", "ModifyColumn"} =>
            \A i \in 1..Len(last.arg.types) :
              last.arg.types[i] \in AcceptedByClaim))

\* C17: every ledger row a concurrent Up inserts carries the batch number
\* the call read before it opened its transaction, whatever other calls
\* committed in between; so two calls that read the same number write it.
C17_BatchReadOutsideTransaction ==
    \A c \in Callers :
      (inflight[c].pc = "done" /\ inflight[c].ret = "nil") =>
        /\ inflight[c].inserted \subseteq ledger
        /\ \A r \in inflight[c].inserted : r.batch = inflight[c].batch

\* C17 witness: two concurrent Up calls have each applied a migration and
\* their ledger rows carry the same batch number.
C17_Witness ==
    /\ \A c \in Callers : inflight[c].pc = "done" /\ inflight[c].ret = "nil"
    /\ \E r \in inflight["a"].inserted :
         \E q \in inflight["b"].inserted :
           /\ r.id # q.id /\ r.batch = q.batch
           /\ {r, q} \subseteq ledger

\* C18: the only store calls Status makes are the creation of the ledger
\* table and the ledger query; it executes no migration statement, writes
\* no ledger row and leaves ledger rows and schema as they were.
C18_StatusReadOnly ==
    last.op = "Status" =>
      /\ \A i \in 1..Len(Log) : Log[i].e \in {"init", "query"}
      /\ StoreAsBefore

\* C18 witness: a Status returned with applied and pending migrations.
C18_Witness ==
    /\ last.op = "Status" /\ last.ret = "nil"
    /\ ledger # {} /\ PendingBefore # {}

\* the Migration values a catalog holds, in its order
Registered(cat) == [i \in 1..Len(cat) |-> Migration(cat[i])]

\* the same Migration values, possibly in another order
Reordered(old, new) ==
    /\ Len(old) = Len(new)
    /\ \E p \in [1..Len(old) -> 1..Len(old)] :
         /\ \A i, j \in 1..Len(old) : i # j => p[i] # p[j]
         /\ \A i \in 1..Len(old) : new[i] = old[p[i]]

\* C19: a step of the Migrator leaves every registered Migration with the
\* ID, Name, Timestamp, Up and Down it was registered with: Add appends one
\* Migration, and Up, Down and Status at most reorder the catalog.
C19_MigrationsNotModified ==
    [][\/ migrations' = <<>>
       \/ \E id \in MigrationIDs :
            Registered(migrations') = Append(Registered(migrations), Migration(id))
       \/ Reordered(Registered(migrations), Registered(migrations'))]_vars

\* C19 witness: an Up has sorted a catalog that was registered out of
\* Timestamp order.
C19_Witness ==
    /\ last.op = "Up" /\ Len(migrations) >= 2
    /\ migrations # last.preCatalog

\* the last call is a successful Up that came right after a successful Down
\* that rolled rows back, with the catalog that Down had
UpAfterDown ==
    /\ last.op = "Up" /\ last.ret = "nil"
    /\ last.prior.down
    /\ last.preLedger = last.prior.after

IDs(led) == {r.id : r \in led}

RolledBack == IDs(last.prior.ledger) \ IDs(last.prior.after)

\* C20 (as stated): after a successful Down followed by a successful Up with
\* the same catalog the applied IDs are those applied before the Down, and
\* the re-applied migrations carry max(remaining batch numbers) + 1.
C20_DownThenUpRestores ==
    UpAfterDown =>
      /\ IDs(ledger) = IDs(last.prior.ledger)
      /\ \A r \in ledger :
           r.id \in RolledBack => r.batch = MaxBatchOf(last.prior.after) + 1

\* C20 (amended): the rolled-back migrations are pending for that Up and are
\* re-applied with batch max(remaining batch numbers) + 1; the applied IDs
\* after the Up are those applied before the Down and the IDs of the
\* catalog, so they equal those before the Down when no registered
\* migration was pending before the Down.
C20_DownThenUpReapplies ==
    UpAfterDown =>
      /\ RolledBack # {}
      /\ RolledBack \subseteq PendingBefore
      /\ RolledBack \subseteq IDs(ledger)
      /\ \A r \in ledger :
           r.id \in RolledBack => r.batch = MaxBatchOf(last.prior.after) + 1
      /\ IDs(ledger)
           = IDs(last.prior.ledger)
               \cup {last.preCatalog[i] : i \in 1..Len(last.preCatalog)}
      /\ ({last.preCatalog[i] : i \in 1..Len(last.preCatalog)}
             \subseteq IDs(last.prior.ledger))
           => IDs(ledger) = IDs(last.prior.ledger)

\* C20 witness: an Up re-applied a migration a Down had just rolled back,
\* while rows of an earlier batch remained.
C20_Witness ==
    /\ UpAfterDown
    /\ last.prior.after # {}
    /\ IDs(ledger) = IDs(last.prior.ledger)

(***************************************************************************)
(* Transactions.                                                           *)
(***************************************************************************)
\* the object the last Transaction call was made on
Receiver == txn.objs[txn.res.obj]

\* the rows written and not undone on the sql.Tx of the last call
RowsNow == RowsOf(txn.conns[txn.res.tx].work)

\* the last call rolled a nested transaction back
NestedRolledBack ==
    /\ txn.res.op = "Rollback"
    /\ txn.res.err = "nil"
    /\ Receiver.savepoint # 0

\* C21: rolling back a nested transaction undoes the writes made through
\* it and keeps the writes made through the parent before the nested
\* Begin; the parent is still active and can be committed.
C21_NestedRollback ==
    NestedRolledBack =>
        /\ \A w \in RowsNow : w.by # txn.res.obj
        /\ \A w \in txn.res.before :
               (w.by = Receiver.parent /\ w.seq <= Receiver.since)
                   => w \in RowsNow
        /\ txn.objs[Receiver.parent].tx = txn.res.tx
        /\ ~TxDone(txn.res.tx)

\* the calls that need a transaction in progress
NeedTransaction ==
    {"Commit", "Rollback", "ExecContext", "QueryContext", "Create"}

\* the last call ended the transaction of its receiver
Ended ==
    /\ txn.res.op \in {"Commit", "Rollback"}
    /\ txn.res.err = "nil"

\* the last call was made on an object with no transaction in progress
CalledWithoutTransaction ==
    /\ txn.res.op \in NeedTransaction
    /\ txn.res.tx = 0

\* an object that has no transaction gets none
StaysInactive ==
    \A t \in 1..Len(txn.objs) : ~InTransaction(t) => txn'.objs[t].tx = 0

\* C22: after a successful Commit or Rollback the object is not in a
\* transaction, and it never is again; an object created by NewTransaction
\* never is in one; Commit, Rollback, ExecContext, QueryContext and Create
\* on an object that is not in a transaction return 'no transaction in
\* progress' and issue no store statement.
C22_NoTransactionInProgress ==
    /\ [](Ended => ~InTransaction(txn.res.obj))
    /\ [](~InTransaction(1))
    /\ [][StaysInactive]_vars
    /\ [](CalledWithoutTransaction =>
              /\ txn.res.err = "no transaction in progress"
              /\ txn.res.issued = 0)

\* Create is called on an object whose transaction was committed
C22_Witness ==
    /\ CalledWithoutTransaction
    /\ txn.res.op = "Create"
    /\ txn.res.obj > 1
    /\ txn.rows # {}

(***************************************************************************)
(* Failures inside Up and Down.                                            *)
(***************************************************************************)
\* the store calls of Up and Down from the transaction on
StoreCalls == {"begin", "exec", "insert", "delete", "commit"}

\* the positions of the store calls of the last call that failed
FailedCalls == {i \in 1..Len(Log) : Log[i].e \in StoreCalls /\ ~Log[i].ok}

\* C23: after a failing begin, migration statement, ledger insert, ledger
\* delete or commit, Up and Down make no further such call (no statement,
\* no ledger write, no second attempt) and return an error.
C23_StopsAtFirstFailure ==
    (last.op \in {"Up", "Down"} /\ FailedCalls # {}) =>
        /\ \A i \in FailedCalls :
               \A j \in 1..Len(Log) : j > i => Log[j].e \notin StoreCalls
        /\ last.ret # "nil"

\* the ledger insert of the first of two pending migrations fails
C23_Witness ==
    /\ last.op = "Up"
    /\ Cardinality(PendingBefore) >= 2
    /\ \E i \in FailedCalls :
           /\ Log[i].e = "insert"
           /\ \A j \in 1..(i - 1) : Log[j].e # "insert"

(***************************************************************************)
(* The migrations table.                                                   *)
(***************************************************************************)
\* the reads of the ledger in the log of the last call
LedgerReads == {i \in 1..Len(Log) : Log[i].e \in {"query", "nextbatch"}}

\* Initialize succeeded before position i of the log of the last call
InitializedBefore(i) ==
    \E j \in 1..(i - 1) : Log[j].e = "init" /\ Log[j].ok

\* C24: Initialize leaves the ledger rows and the schema as they are and,
\* when it succeeds, the migrations table exists; the table, once there,
\* stays; Up, Down and Status read the ledger only after an Initialize of
\* their own has succeeded, and none of them fails for want of the table.
C24_InitializeIdempotent ==
    /\ [](last.op = "Initialize" =>
              /\ StoreAsBefore
              /\ last.ret = "nil" => tableExists)
    /\ [][tableExists => tableExists']_vars
    /\ [](last.op \in {"Up", "Down", "Status"} =>
              /\ last.ret # "no such table"
              /\ \A i \in LedgerReads : InitializedBefore(i))

\* Initialize is called again on a store that has ledger rows
C24_Witness ==
    /\ last.op = "Initialize"
    /\ last.ret = "nil"
    /\ ledger # {}

(***************************************************************************)
(* Rendering.                                                              *)
(***************************************************************************)
\* whether sub occurs in text
Contains(text, sub) ==
    \E i \in 1..(Len(text) - Len(sub) + 1) :
        SubSeq(text, i, i + Len(sub) - 1) = sub

\* the rule for the suffix of a column in CREATE TABLE
Suffix(col) ==
    CASE col.IsPK /\ col.IsAuto -> " PRIMARY KEY AUTOINCREMENT"
      [] col.IsPK /\ ~col.IsAuto -> " PRIMARY KEY"
      [] ~col.IsPK /\ ~col.IsNull -> " NOT NULL"
      [] OTHER -> ""

\* the last call rendered a CREATE TABLE
RenderedCreateTable == last.op = "CreateTable.SQL"

\* C25: in the text of CREATE TABLE every column is '<name> <type>' and
\* its suffix: ' PRIMARY KEY AUTOINCREMENT' for an auto-increment key,
\* ' PRIMARY KEY' for another key, ' NOT NULL' for a column that is not a
\* key and not nullable, nothing otherwise; a table of key columns has no
\* NOT NULL in its text, a table of nullable non-key columns no suffix.
C25_ColumnRendering ==
    RenderedCreateTable =>
        LET cols == last.arg.Columns
            all(P(_)) == \A i \in 1..Len(cols) : P(cols[i])
            IsKey(c) == c.IsPK
            IsPlain(c) == ~c.IsPK /\ c.IsNull
        IN  /\ last.ret =
                 "CREATE TABLE " \o last.arg.Name \o " (\n\t"
                   \o Join([i \in 1..Len(cols) |->
                              cols[i].Name \o " " \o cols[i].Type
                                \o Suffix(cols[i])], ",\n\t")
                   \o "\n)"
            /\ all(IsKey) => ~Contains(last.ret, "NOT NULL")
            /\ all(IsPlain) =>
                   /\ ~Contains(last.ret, "NOT NULL")
                   /\ ~Contains(last.ret, "PRIMARY KEY")

\* a table with a key column that is not nullable and a plain column
C25_Witness ==
    /\ RenderedCreateTable
    /\ Len(last.arg.Columns) = 2
    /\ last.arg.Columns[1].IsPK /\ ~last.arg.Columns[1].IsNull
    /\ ~last.arg.Columns[2].IsPK /\ ~last.arg.Columns[2].IsNull
    /\ Contains(last.ret, "id INTEGER PRIMARY KEY,")

\* C26: the text of ModifyColumn is 'ALTER TABLE <table> RENAME COLUMN
\* <old> TO <new name>' whatever the type and the flags of the new column.
C26_ModifyColumnRenamesOnly ==
    last.op = "ModifyColumn.SQL" =>
        /\ last.arg.NewColumn.Name = "id" =>
               last.ret = "ALTER TABLE users RENAME COLUMN email TO id"
        /\ last.arg.NewColumn.Name = "name" =>
               last.ret = "ALTER TABLE users RENAME COLUMN email TO name"

\* a ModifyColumn whose new column changes type and flags is rendered
C26_Witness ==
    /\ last.op = "ModifyColumn.SQL"
    /\ last.arg.NewColumn.Type = "INTEGER"
    /\ last.arg.NewColumn.IsPK
    /\ ~last.arg.NewColumn.IsNull

(***************************************************************************)
(* Direct mode.                                                            *)
(***************************************************************************)
\* the steps of the last call, inside a migration, that failed
FailedSteps ==
    {i \in 1..Len(Log) :
        Log[i].e \in {"validate", "exec", "insert"} /\ ~Log[i].ok}

\* what the k-th Up statement of migration id creates
EffectOf(id, k) == Apply({}, SQL(Migration(id).Up[k]))

\* C28: when a migration of an Up in direct mode fails, the migrations the
\* call applied before it keep their ledger rows and their schema objects,
\* the rows of earlier calls stay, every statement the call executed stays
\* in effect, and the failing migration has no ledger row.
C28_DirectModeKeepsPartialWork ==
    (last.op = "Up" /\ ~last.useTx /\ FailedSteps # {}) =>
        /\ last.preLedger \subseteq ledger
        /\ \A i \in 1..Len(Log) :
               /\ (Log[i].e = "insert" /\ Log[i].ok) =>
                      /\ Log[i].m \in IDs(ledger)
                      /\ EffectsOf(Log[i].m) \subseteq schema
               /\ (Log[i].e = "exec" /\ Log[i].ok) =>
                      EffectOf(Log[i].m, Log[i].k) \subseteq schema
        /\ \A i \in FailedSteps : Log[i].m \notin IDs(ledger)

\* the second statement of a migration fails after an earlier migration of
\* the same call was recorded
C28_Witness ==
    /\ last.op = "Up" /\ ~last.useTx
    /\ \E i \in FailedSteps :
           /\ Log[i].e = "exec" /\ Log[i].k = 2
           /\ \E j \in 1..(i - 1) : Log[j].e = "insert" /\ Log[j].ok
    /\ ledger # last.preLedger
    /\ <<"teams", "">> \in schema

(***************************************************************************)
(* Migrations registered more than once.                                   *)
(***************************************************************************)
\* the successful ledger inserts of migration id in the log of the last call
InsertsOf(id) ==
    {i \in 1..Len(Log) : Log[i].e = "insert" /\ Log[i].ok /\ Log[i].m = id}

\* the last call came to the same Up statement twice
ExecutedTwice ==
    \E i, j \in 1..Len(Log) :
        /\ i < j
        /\ Log[i].e = "exec" /\ Log[j].e = "exec"
        /\ Log[i].m = Log[j].m /\ Log[i].k = Log[j].k

\* C29: no two ledger rows have the same id, whatever the catalog holds; a
\* transactional Up either fails and leaves the ledger as it was, or
\* succeeds having inserted each new id once; an Up that came to the same
\* Up statement twice leaves the store as it was.
C29_LedgerIDsUnique ==
    /\ \A r, q \in ledger : r.id = q.id => r = q
    /\ (last.op = "Up" /\ last.useTx) =>
           /\ \/ ledger = last.preLedger
              \/ /\ last.ret = "nil"
                 /\ \A id \in IDs(ledger) \ IDs(last.preLedger) :
                        Cardinality(InsertsOf(id)) = 1
           /\ ExecutedTwice => StoreAsBefore

\* a transactional Up over a catalog that holds a pending migration twice
C29_Witness ==
    /\ last.op = "Up" /\ last.useTx
    /\ ExecutedTwice
    /\ \E i, j \in 1..Len(last.preCatalog) :
           i # j /\ last.preCatalog[i] = last.preCatalog[j]
    /\ \E id \in MigrationIDs : InsertsOf(id) # {}

(***************************************************************************)
(* Batches.                                                                *)
(***************************************************************************)
\* the rows the last call added to the ledger
NewRows == ledger \ last.preLedger

\* C30: the rows an Up call adds to the ledger, whether it succeeds or
\* fails, all carry one batch number, and no row that was in the ledger
\* before the call carries that number: a batch number in the ledger
\* belongs to one Up call.
C30_BatchIsOneCall ==
    last.op = "Up" =>
        \A r \in NewRows :
            /\ \A q \in last.preLedger : q.batch # r.batch
            /\ \A q \in NewRows : q.batch = r.batch

\* an Up in direct mode fails after it added a row to a ledger that holds
\* the rows of an earlier call
C30_Witness ==
    /\ last.op = "Up" /\ last.ret # "nil"
    /\ NewRows # {}
    /\ last.preLedger # {}

(***************************************************************************)
(* Down on an empty ledger.                                                *)
(***************************************************************************)
\* the store calls of the last call that failed, whatever they were
AnyCallFailed == \E i \in 1..Len(Log) : ~Log[i].ok

\* C31: a Down that finds the ledger empty opens no transaction, executes
\* no statement, deletes no row and leaves the store as it was; it returns
\* nil unless the store refused its CREATE TABLE IF NOT EXISTS or its
\* ledger query.
C31_DownOnEmptyLedger ==
    (last.op = "Down" /\ last.preLedger = {}) =>
        /\ \A i \in 1..Len(Log) :
               Log[i].e \notin {"begin", "exec", "delete", "commit", "rollback"}
        /\ last.tx = "none"
        /\ StoreAsBefore
        /\ ~AnyCallFailed => last.ret = "nil"

\* Down on an empty ledger with migrations registered, in transaction mode
C31_Witness ==
    /\ last.op = "Down" /\ last.useTx
    /\ last.preLedger = {}
    /\ Len(last.preCatalog) >= 2
    /\ last.ret = "nil"

(***************************************************************************)
(* Up and the migrations applied before.                                   *)
(***************************************************************************)
\* the migrations that had a ledger row when the last call began
AppliedBefore == IDs(last.preLedger)

\* C32: an Up, successful or not, in either mode, comes to no Up statement
\* and no ledger insert of a migration that had a ledger row when the call
\* began, and every row of that ledger is in the ledger afterwards, with
\* all its columns as they were.
C32_UpLeavesAppliedAlone ==
    last.op = "Up" =>
        /\ \A i \in 1..Len(Log) :
               Log[i].e \in {"validate", "exec", "insert"} =>
                   Log[i].m \notin AppliedBefore
        /\ last.preLedger \subseteq ledger

\* an Up over a catalog with applied and pending migrations executes a
\* pending statement and has another one rejected
C32_Witness ==
    /\ last.op = "Up"
    /\ \E i \in 1..Len(last.preCatalog) : last.preCatalog[i] \in AppliedBefore
    /\ \E i \in 1..Len(Log) : Log[i].e = "exec" /\ Log[i].ok
    /\ \E i \in 1..Len(Log) : Log[i].e = "exec" /\ ~Log[i].ok

(***************************************************************************)
(* Rolling everything back.                                                *)
(***************************************************************************)
\* C33: a successful Down on a ledger with rows removes at least one row;
\* after k successful Down calls in a row on a ledger that had n rows, at
\* most n - k rows are left, so there are at most n such calls before the
\* ledger is empty, and with an empty ledger every registered migration is
\* pending.
C33_DownDrainsLedger ==
    /\ (last.op = "Down" /\ last.ret = "nil" /\ last.preLedger # {}) =>
           /\ ledger \subseteq last.preLedger
           /\ ledger # last.preLedger
    /\ last.streak.calls > 0 =>
           Cardinality(ledger) + last.streak.calls <= last.streak.n
    /\ ledger = {} =>
           \A i \in 1..Len(migrations) :
               IsPending(AppliedIDs(ledger), migrations[i])

\* the second successful Down in a row empties a ledger of three rows
C33_Witness ==
    /\ last.op = "Down" /\ last.ret = "nil"
    /\ last.streak = [n |-> 3, calls |-> 2]
    /\ ledger = {}

(***************************************************************************)
(* The lock of a Transaction.                                              *)
(***************************************************************************)
\* goroutine g is in Create, holds the read lock and waits for the read
\* lock of ExecContext
CreateWaits(g) ==
    /\ At(g).op = "Create"
    /\ At(g).at = "ExecContext.RLock"
    /\ ~CanRLock(At(g).t)

\* C34: a Create that waits for the read lock of ExecContext waits for a
\* goroutine that holds the write lock and will release it, never for one
\* that itself waits for the readers to leave.
C34_CreateCannotDeadlock ==
    \A g \in Goroutines :
        CreateWaits(g) => At(txn.mu[At(g).t].writer).at # "Lock.wait"

(***************************************************************************)
(* Nested transactions of one parent.                                      *)
(***************************************************************************)
\* the nested transactions begun on the same parent as object t, t aside
Siblings(t) ==
    {u \in 1..Len(txn.objs) :
        /\ u # t
        /\ txn.objs[u].savepoint # 0
        /\ txn.objs[u].parent = txn.objs[t].parent}

\* C35: two nested transactions of one parent have savepoints of their
\* own, and the rollback of one of them undoes exactly the rows written
\* since its own Begin.
C35_SiblingsIndependent ==
    /\ \A t \in 1..Len(txn.objs) :
           txn.objs[t].savepoint # 0 =>
               \A u \in Siblings(t) :
                   txn.objs[u].savepoint # txn.objs[t].savepoint
    /\ (NestedRolledBack /\ Siblings(txn.res.obj) # {}) =>
           RowsNow = {w \in txn.res.before : w.seq <= Receiver.since}

(***************************************************************************)
(* Nested transactions of a parent that has finished.                      *)
(***************************************************************************)
\* object t is a nested transaction whose parent is in no transaction any
\* more
ParentFinished(t) ==
    /\ txn.objs[t].parent # 0
    /\ ~InTransaction(txn.objs[t].parent)

\* C36: a nested transaction whose parent was committed or rolled back is
\* in no transaction, and Commit, Rollback, ExecContext, QueryContext and
\* Create on it return 'no transaction in progress'.
C36_NestedEndsWithParent ==
    /\ \A t \in 1..Len(txn.objs) : ParentFinished(t) => ~InTransaction(t)
    /\ (txn.res.op \in NeedTransaction /\ ParentFinished(txn.res.obj)) =>
           txn.res.err = "no transaction in progress"

(***************************************************************************)
(* AutoMigrate.                                                            *)
(***************************************************************************)
\* the type names of the columns of the tables AutoMigrate has built
BuiltTypes ==
    UNION {{Migration(migrations[i]).Up[1].types[k] :
              k \in 1..Len(Migration(migrations[i]).Up[1].types)} :
             i \in Built(migrations)}

\* C37: every type name SqlType gives to a column of a table AutoMigrate
\* builds is INTEGER, REAL, TEXT or BLOB and passes validateSQLType, and no
\* AutoMigrate and no Up on a catalog built by AutoMigrate finds an invalid
\* operation or returns the validation error.
C37_BuiltTablesPassValidation ==
    /\ \A t \in BuiltTypes :
           t \in {"INTEGER", "REAL", "TEXT", "BLOB"} /\ validateSQLType(t)
    /\ last.op \in {"AutoMigrate", "Up"} =>
           /\ last.ret # "validation"
           /\ \A i \in 1..Len(Log) : Log[i].e = "validate" => Log[i].ok

C37_Witness ==
    /\ last.op = "AutoMigrate"
    /\ last.ret = "nil"
    /\ {last.arg.types[k] : k \in 1..Len(last.arg.types)}
           = {"INTEGER", "REAL", "TEXT", "BLOB"}
    /\ HasEvent(Log, "validate", TRUE)
    /\ <<last.arg.table, "">> \in schema \ last.preSchema

\* an earlier AutoMigrate created the table: it is in the schema, and the
\* ledger has the row of its create_<table> migration
CreatedBefore(table) ==
    /\ <<table, "">> \in last.preSchema
    /\ \E r \in last.preLedger : r.name = "create_" \o table

\* the store refused a call of its own accord: a call failed that was not
\* the CREATE TABLE of a table the schema had before the call
Refused ==
    \E i \in 1..Len(Log) :
        /\ ~Log[i].ok
        /\ ~(/\ Log[i].e = "exec"
             /\ \E j \in 1..Len(migrations) :
                    /\ Migration(migrations[j]).ID = Log[i].m
                    /\ <<Migration(migrations[j]).Up[Log[i].k].table, "">>
                           \in last.preSchema)

\* AutoMigrate was called before for a table that an earlier call created
RepeatedBefore ==
    \E i, j \in Built(last.preCatalog) :
        /\ i # j
        /\ Migration(last.preCatalog[i]).Up[1].table
               = Migration(last.preCatalog[j]).Up[1].table
        /\ CreatedBefore(Migration(last.preCatalog[i]).Up[1].table)

\* C38: unless the store refuses a call of its own accord, AutoMigrate for a
\* model whose table an earlier AutoMigrate created returns nil and leaves
\* the schema and the ledger as they were, and after such a call an Up, and
\* an AutoMigrate for a model whose table does not exist yet, returns nil.
C38_AutoMigrateRepeatable ==
    /\ (last.op = "AutoMigrate" /\ CreatedBefore(last.arg.table) /\ ~Refused) =>
           /\ last.ret = "nil"
           /\ schema = last.preSchema
           /\ ledger = last.preLedger
    /\ (/\ last.op \in {"AutoMigrate", "Up"}
        /\ RepeatedBefore
        /\ ~Refused
        /\ last.op = "AutoMigrate" =>
               last.arg.table # "" /\ ~CreatedBefore(last.arg.table)) =>
           last.ret = "nil"

====
